---- MODULE Spec2Model ----
(***************************************************************************)
(* Drift comparison of Terraform state against Snowflake resources:       *)
(* compare_resources of resource_comparison.py as a state machine over    *)
(* Python values.                                                          *)
(*                                                                         *)
(* A Python string is a sequence of one-character strings, so that         *)
(* upper(), lower(), strip() and concatenation are computed and not        *)
(* tabulated.  A Python value is a record tagged by its type.              *)
(***************************************************************************)
EXTENDS Integers, Sequences, FiniteSets, TLC

VARIABLES
    tf_state,       \* argument: the Terraform state document
    sf_resources,   \* argument: the list of Snowflake resources
    resource,       \* argument: the resource type
    attributes,     \* argument: the attribute names to compare
    synonyms,       \* argument: the synonym table
    pc,             \* position of the call inside compare_resources
    idx,            \* position of the loop over tf_state["resources"]
    tf_resources,   \* local: attribute mappings extracted from tf_state
    tf_res_map,     \* local: declared records by key
    sf_res_map,     \* local: observed records by key
    todo,           \* keys of the set union not yet visited by the loop
    drifts,         \* local: the drift records appended so far
    exc,            \* the exception in flight inside the try block
    outcome,        \* what the caller sees: a returned list or a raised error
    \* main of SNOWDRIFT.py and its process_account threads
    main_pc,                 \* position of main
    send_consolidated_email, \* the command-line flag
    account_config,          \* the list of account configurations, once loaded
    failures,                \* main: the failures recorded so far
    account_drift_summary,   \* main: the accounts collected with drift
    collected,               \* per account: what main got from its future
    acct_pc,                 \* per account: position of process_account
    acct_exc,                \* per account: the exception that left it
    acct_tf_state,           \* per account: tf_state, by the account that wrote it
    res_idx,               \* per account: position in resource_config
    sf_result,               \* per account: what the last query returned
    output,                  \* per account: resource type -> drift list
    account_failures,        \* per account: the failures it returns
    drift_summary,           \* per account: total_drifts and output_file
    tf_statefile,            \* file system: state files by workspace name
    output_file,             \* file system: drift files by workspace name
    emails,                  \* the emails sent so far
    \* get_snowflake_resources
    q_pc,           \* position of the call
    q_variant,      \* which of the copies of the function runs
    sql_query,      \* argument: the kind of statement
    result_sets,    \* server: the result sets the statement produces
    q_set,          \* cursor: the result set it stands on
    conn,           \* the connection: "none", "open" or "closed"
    cursor,         \* the cursor: "none", "open" or "closed"
    rows,           \* local: the fetched rows, or Unbound
    q_exc,          \* the exception in flight inside the try block
    q_outcome       \* what the caller sees

args == <<tf_state, sf_resources, resource, attributes, synonyms>>
locals == <<idx, tf_resources, tf_res_map, sf_res_map, todo, drifts>>
compareVars == <<args, pc, locals, exc, outcome>>
mainVars == <<main_pc, send_consolidated_email, account_config, failures,
              account_drift_summary, collected, acct_pc, acct_exc,
              acct_tf_state, res_idx, sf_result, output, account_failures,
              drift_summary, tf_statefile, output_file, emails>>
queryVars == <<q_pc, q_variant, sql_query, result_sets, q_set, conn, cursor,
               rows, q_exc, q_outcome>>
acctLocals == <<acct_pc, acct_exc, acct_tf_state, res_idx, sf_result, output,
                account_failures, drift_summary>>
others == <<mainVars, queryVars>>
vars == <<compareVars, mainVars, queryVars>>

---------------------------------------------------------------------------
(* Bounds of the model *)

MaxTf == 2      \* declared instances in the state document
MaxSf == 2      \* observed records in the Snowflake list
MaxGroups == 2  \* elements of tf_state["resources"], of any shape
MaxObserved == 2 \* elements of sf_resources, of any shape

---------------------------------------------------------------------------
(* Python strings *)

LowerAlpha ==
    <<"a","b","c","d","e","f","g","h","i","j","k","l","m",
      "n","o","p","q","r","s","t","u","v","w","x","y","z">>

UpperAlpha ==
    <<"A","B","C","D","E","F","G","H","I","J","K","L","M",
      "N","O","P","Q","R","S","T","U","V","W","X","Y","Z">>

Whitespace == {" ", "\t", "\n"}

UpperChar(c) ==
    IF \E i \in 1..26 : LowerAlpha[i] = c
    THEN UpperAlpha[CHOOSE i \in 1..26 : LowerAlpha[i] = c]
    ELSE c

LowerChar(c) ==
    IF \E i \in 1..26 : UpperAlpha[i] = c
    THEN LowerAlpha[CHOOSE i \in 1..26 : UpperAlpha[i] = c]
    ELSE c

\* str.upper()
Upper(s) == [i \in 1..Len(s) |-> UpperChar(s[i])]

\* str.lower()
Lower(s) == [i \in 1..Len(s) |-> LowerChar(s[i])]

\* bool(s.strip()): some character is not whitespace
StripNonEmpty(s) == \E i \in 1..Len(s) : s[i] \notin Whitespace

\* `k in s` for two strings: substring test
Contains(s, k) ==
    \E i \in 1..(Len(s) - Len(k) + 1) : SubSeq(s, i, i + Len(k) - 1) = k

Digits == <<"0","1","2","3","4","5","6","7","8","9">>

RECURSIVE NatToStr(_)
NatToStr(n) ==
    IF n < 10 THEN <<Digits[n + 1]>>
    ELSE NatToStr(n \div 10) \o <<Digits[(n % 10) + 1]>>

\* str(n) for an int
IntToStr(n) == IF n < 0 THEN <<"-">> \o NatToStr(0 - n) ELSE NatToStr(n)

---------------------------------------------------------------------------
(* Python values *)

PyNone == [t |-> "none"]
PyStr(s) == [t |-> "str", s |-> s]
PyInt(n) == [t |-> "int", n |-> n]
PyList(l) == [t |-> "list", l |-> l]
PyDict(d) == [t |-> "dict", d |-> d]

EmptyDict == PyDict(<<>>)

IsDict(v) == v.t = "dict"
IsList(v) == v.t = "list"
IsStr(v) == v.t = "str"

\* `k in d` and d[k] for a dict d and a str key k
HasKey(v, k) == k \in DOMAIN v.d
Item(v, k) == v.d[k]

\* d.get(k): None when the key is absent
Get(v, k) == IF HasKey(v, k) THEN Item(v, k) ELSE PyNone

\* d.get(k, default)
GetOr(v, k, default) == IF HasKey(v, k) THEN Item(v, k) ELSE default

\* a one-entry and a two-entry dict
Dict1(k1, v1) == PyDict([k \in {k1} |-> v1])
Dict2(k1, v1, k2, v2) == PyDict([k \in {k1, k2} |-> IF k = k1 THEN v1 ELSE v2])

\* hash(v) succeeds: lists and dicts are unhashable
Hashable(v) == v.t \in {"none", "str", "int"}

\* str(v) for the scalar values of the model
Str(v) ==
    CASE v.t = "str" -> v.s
      [] v.t = "int" -> IntToStr(v.n)
      [] OTHER -> <<"N","o","n","e">>

\* iter(v): the sequence a for loop visits; lists give their elements,
\* dicts their keys and strings their characters
Iterable(v) == v.t \in {"list", "dict", "str"}

RECURSIVE SetToSeq(_)
SetToSeq(S) ==
    IF S = {} THEN <<>>
    ELSE LET x == CHOOSE y \in S : TRUE IN <<x>> \o SetToSeq(S \ {x})

Iter(v) ==
    CASE v.t = "list" -> v.l
      [] v.t = "dict" -> [i \in 1..Cardinality(DOMAIN v.d) |->
                            PyStr(SetToSeq(DOMAIN v.d)[i])]
      [] v.t = "str" -> [i \in 1..Len(v.s) |-> PyStr(<<v.s[i]>>)]
      [] OTHER -> <<>>

Range(q) == {q[i] : i \in 1..Len(q)}

---------------------------------------------------------------------------
(* String literals of compare_resources *)

K_resources == <<"r","e","s","o","u","r","c","e","s">>

K_type == <<"t","y","p","e">>

K_instances == <<"i","n","s","t","a","n","c","e","s">>

K_attributes == <<"a","t","t","r","i","b","u","t","e","s">>

K_name == <<"n","a","m","e">>

K_login_name == <<"l","o","g","i","n","_","n","a","m","e">>

SnowflakePrefix == <<"s","n","o","w","f","l","a","k","e","_">>

SnowflakeUser == <<"s","n","o","w","f","l","a","k","e","_","u","s","e","r">>

NullStr == <<"N","U","L","L">>

---------------------------------------------------------------------------
(* compare_resources, resource_comparison.py *)

NoExc == [type |-> "none"]
Raise(type) == [type |-> type]

\* the argument checks at the head of the try block; the result is the
\* ValueError raised first, or NoExc
ValidateArgs(tf, sf, r, attrs, syn) ==
    IF ~IsDict(tf) THEN Raise("ValueError")
    ELSE IF ~IsList(sf) THEN Raise("ValueError")
    ELSE IF ~IsStr(r) \/ ~StripNonEmpty(r.s) THEN Raise("ValueError")
    ELSE IF \/ ~IsList(attrs)
            \/ Len(attrs.l) = 0
            \/ ~(\A i \in 1..Len(attrs.l) :
                    IsStr(attrs.l[i]) /\ StripNonEmpty(attrs.l[i].s))
         THEN Raise("ValueError")
    ELSE IF ~IsDict(syn) THEN Raise("ValueError")
    ELSE NoExc

\* f"snowflake_{resource.lower()}"
TfResourceType(r) == SnowflakePrefix \o Lower(r.s)

\* KeyField that tests resource itself, not the lower-cased tag
KeyFieldCaseSensitive(r) ==
    IF r.s = <<"u","s","e","r">> THEN K_login_name ELSE K_name

\* "login_name" if tf_resource_type == "snowflake_user" else "name"
KeyField(r) ==
    IF TfResourceType(r) = SnowflakeUser THEN K_login_name ELSE K_name

\* tf_state.get("resources", [])
TfGroups(tf) == GetOr(tf, K_resources, PyList(<<>>))

\* [instance["attributes"] for instance in res["instances"]
\*    if isinstance(instance, dict) and "attributes" in instance]
RECURSIVE InstanceAttributes(_)
InstanceAttributes(insts) ==
    IF insts = <<>> THEN <<>>
    ELSE LET instance == Head(insts) IN
         (IF IsDict(instance) /\ HasKey(instance, K_attributes)
          THEN <<Item(instance, K_attributes)>>
          ELSE <<>>) \o InstanceAttributes(Tail(insts))

\* ExtractGroup without the test of the type: every group contributes
ExtractGroupAnyType(res, tag) ==
    IF ~IsDict(res) \/ ~HasKey(res, K_type) \/ ~HasKey(res, K_instances)
    THEN [exc |-> NoExc, recs |-> <<>>]
    ELSE IF ~Iterable(Item(res, K_instances))
    THEN [exc |-> Raise("TypeError"), recs |-> <<>>]
    ELSE [exc |-> NoExc,
          recs |-> InstanceAttributes(Iter(Item(res, K_instances)))]

\* one iteration of the loop over the groups of the state document: the
\* exception it raises and the records it appends to tf_resources
ExtractGroup(res, tag) ==
    IF ~IsDict(res) \/ ~HasKey(res, K_type) \/ ~HasKey(res, K_instances)
    THEN [exc |-> NoExc, recs |-> <<>>]
    ELSE IF Item(res, K_type) # PyStr(tag)
    THEN [exc |-> NoExc, recs |-> <<>>]
    ELSE IF ~Iterable(Item(res, K_instances))
    THEN [exc |-> Raise("TypeError"), recs |-> <<>>]
    ELSE [exc |-> NoExc,
          recs |-> InstanceAttributes(Iter(Item(res, K_instances)))]

\* `key_field in res` raises TypeError for a value that is no container
InRaises(res) == res.t \notin {"dict", "str", "list"}

\* `key_field in res`: a key of a dict, a substring of a string, an element
\* of a list
In(res, key_field) ==
    CASE res.t = "dict" -> HasKey(res, key_field)
      [] res.t = "str" -> Contains(res.s, key_field)
      [] res.t = "list" -> PyStr(key_field) \in Range(res.l)
      [] OTHER -> FALSE

\* MapPut without the `if key_field in res` filter: res[key_field] raises
\* KeyError for a record that lacks the key field
MapPutUnfiltered(acc, res, key_field) ==
    IF acc.exc # NoExc THEN acc
    ELSE IF ~IsDict(res) THEN [acc EXCEPT !.exc = Raise("TypeError")]
    ELSE IF ~HasKey(res, key_field) THEN [acc EXCEPT !.exc = Raise("KeyError")]
    ELSE IF ~Hashable(Item(res, key_field))
    THEN [acc EXCEPT !.exc = Raise("TypeError")]
    ELSE LET key == Item(res, key_field) IN
         [acc EXCEPT !.map = [k \in (DOMAIN acc.map) \cup {key} |->
                                IF k = key THEN res ELSE acc.map[k]]]

\* MapPut that folds a string key to lower case before it stores the record
MapPutLowerKeys(acc, res, key_field) ==
    IF acc.exc # NoExc THEN acc
    ELSE IF InRaises(res) THEN [acc EXCEPT !.exc = Raise("TypeError")]
    ELSE IF ~In(res, key_field) THEN acc
    ELSE IF ~IsDict(res) THEN [acc EXCEPT !.exc = Raise("TypeError")]
    ELSE IF ~Hashable(Item(res, key_field))
    THEN [acc EXCEPT !.exc = Raise("TypeError")]
    ELSE LET raw == Item(res, key_field)
             key == IF IsStr(raw) THEN PyStr(Lower(raw.s)) ELSE raw
         IN
         [acc EXCEPT !.map = [k \in (DOMAIN acc.map) \cup {key} |->
                                IF k = key THEN res ELSE acc.map[k]]]

\* one element of the comprehension {res[key_field]: res for res in ... if
\* key_field in res}, applied to the map built so far
MapPut(acc, res, key_field) ==
    IF acc.exc # NoExc THEN acc
    ELSE IF InRaises(res) THEN [acc EXCEPT !.exc = Raise("TypeError")]
    ELSE IF ~In(res, key_field) THEN acc
    ELSE IF ~IsDict(res) THEN [acc EXCEPT !.exc = Raise("TypeError")]
    ELSE IF ~Hashable(Item(res, key_field))
    THEN [acc EXCEPT !.exc = Raise("TypeError")]
    ELSE LET key == Item(res, key_field) IN
         [acc EXCEPT !.map = [k \in (DOMAIN acc.map) \cup {key} |->
                                IF k = key THEN res ELSE acc.map[k]]]

\* the dict comprehension over a list of records, left to right, so that a
\* later record replaces an earlier one of the same key
RECURSIVE BuildMapFrom(_, _, _)
BuildMapFrom(acc, recs, key_field) ==
    IF recs = <<>> THEN acc
    ELSE BuildMapFrom(MapPut(acc, Head(recs), key_field), Tail(recs), key_field)

BuildMap(recs, key_field) ==
    BuildMapFrom([exc |-> NoExc, map |-> <<>>], recs, key_field)

\* ValueStr without the test for None: None is reported as "NONE"
ValueStrNoNull(v) == Upper(Str(v))

\* ValueStr without upper(): the comparison is case-sensitive
ValueStrCaseSensitive(v) == IF v = PyNone THEN NullStr ELSE Str(v)

\* str(value).upper() if value is not None else "NULL"
ValueStr(v) == IF v = PyNone THEN NullStr ELSE Upper(Str(v))

\* synonyms.get(resource, {}).get(attr.lower(), {}); the exception is the
\* AttributeError of calling .get on a value that is no dict
SynonymsForAttr(syn, r, attr) ==
    LET sub == GetOr(syn, r.s, EmptyDict) IN
    IF ~IsDict(sub) THEN [exc |-> Raise("AttributeError"), tbl |-> EmptyDict]
    ELSE [exc |-> NoExc, tbl |-> GetOr(sub, Lower(attr), EmptyDict)]

\* Synonym without the table: every value is its own canonical form
SynonymIgnored(tbl, value_str) == PyStr(value_str)

\* synonyms_for_attr.get(value_str, value_str)
Synonym(tbl, value_str) == GetOr(tbl, value_str, PyStr(value_str))

PresenceDrift(tag, res_name, inSf, inTf) ==
    [resource |-> tag, name |-> res_name, Snowflake |-> inSf, Terraform |-> inTf]

AttributeDrift(tag, res_name, attr, sf_value_str, tf_value_str) ==
    [resource |-> tag, name |-> res_name, attribute |-> attr,
     Snowflake |-> sf_value_str, Terraform |-> tf_value_str]

\* CompareAttrs that reports the canonical forms instead of the raw strings
RECURSIVE CompareAttrsReportCanonical(_, _, _, _, _, _, _)
CompareAttrsReportCanonical(attrs, tf_res, sf_res, tag, res_name, r, syn) ==
    IF attrs = <<>> THEN [exc |-> NoExc, recs |-> <<>>]
    ELSE LET attr == Head(attrs).s
             tf_value_str == ValueStr(Get(tf_res, attr))
             sf_value_str == ValueStr(Get(sf_res, attr))
             look == SynonymsForAttr(syn, r, attr)
         IN
         IF look.exc # NoExc THEN [exc |-> look.exc, recs |-> <<>>]
         ELSE IF ~IsDict(look.tbl)
         THEN [exc |-> Raise("AttributeError"), recs |-> <<>>]
         ELSE LET tf_synonym == Synonym(look.tbl, tf_value_str)
                  sf_synonym == Synonym(look.tbl, sf_value_str)
                  here == IF tf_synonym # sf_synonym
                          THEN <<AttributeDrift(tag, res_name, attr,
                                                Str(sf_synonym),
                                                Str(tf_synonym))>>
                          ELSE <<>>
                  rest == CompareAttrsReportCanonical(Tail(attrs), tf_res,
                                                      sf_res, tag, res_name,
                                                      r, syn)
              IN [exc |-> rest.exc, recs |-> here \o rest.recs]

\* the loop over the attributes for a key that both maps hold: the records
\* appended, and the exception that ends the loop early
RECURSIVE CompareAttrs(_, _, _, _, _, _, _)
CompareAttrs(attrs, tf_res, sf_res, tag, res_name, r, syn) ==
    IF attrs = <<>> THEN [exc |-> NoExc, recs |-> <<>>]
    ELSE LET attr == Head(attrs).s
             tf_value_str == ValueStr(Get(tf_res, attr))
             sf_value_str == ValueStr(Get(sf_res, attr))
             look == SynonymsForAttr(syn, r, attr)
         IN
         IF look.exc # NoExc THEN [exc |-> look.exc, recs |-> <<>>]
         ELSE IF ~IsDict(look.tbl)
         THEN [exc |-> Raise("AttributeError"), recs |-> <<>>]
         ELSE LET tf_synonym == Synonym(look.tbl, tf_value_str)
                  sf_synonym == Synonym(look.tbl, sf_value_str)
                  here == IF tf_synonym # sf_synonym
                          THEN <<AttributeDrift(tag, res_name, attr,
                                                sf_value_str, tf_value_str)>>
                          ELSE <<>>
                  rest == CompareAttrs(Tail(attrs), tf_res, sf_res, tag,
                                       res_name, r, syn)
              IN [exc |-> rest.exc, recs |-> here \o rest.recs]

\* DriftsForKey with the attribute loop outside the else branch: a key of one
\* side is compared with an empty record after its presence record
DriftsForKeyNoElse(res_name, tfm, sfm, r, attrs, syn) ==
    LET tag == TfResourceType(r)
        presence ==
            IF res_name \notin DOMAIN tfm
            THEN <<PresenceDrift(tag, res_name, TRUE, FALSE)>>
            ELSE IF res_name \notin DOMAIN sfm
            THEN <<PresenceDrift(tag, res_name, FALSE, TRUE)>>
            ELSE <<>>
        tf_res == IF res_name \in DOMAIN tfm THEN tfm[res_name] ELSE EmptyDict
        sf_res == IF res_name \in DOMAIN sfm THEN sfm[res_name] ELSE EmptyDict
        cmp == CompareAttrs(attrs.l, tf_res, sf_res, tag, res_name, r, syn)
    IN [exc |-> cmp.exc, recs |-> presence \o cmp.recs]

\* DriftsForKey with the two presence flags exchanged
DriftsForKeySwapped(res_name, tfm, sfm, r, attrs, syn) ==
    LET tag == TfResourceType(r) IN
    IF res_name \notin DOMAIN tfm
    THEN [exc |-> NoExc, recs |-> <<PresenceDrift(tag, res_name, FALSE, TRUE)>>]
    ELSE IF res_name \notin DOMAIN sfm
    THEN [exc |-> NoExc, recs |-> <<PresenceDrift(tag, res_name, TRUE, FALSE)>>]
    ELSE CompareAttrs(attrs.l, tfm[res_name], sfm[res_name], tag, res_name,
                      r, syn)

\* DriftsForKey that compares login_name after the attributes of the list
DriftsForKeyWithLoginName(res_name, tfm, sfm, r, attrs, syn) ==
    LET tag == TfResourceType(r) IN
    IF res_name \notin DOMAIN tfm
    THEN [exc |-> NoExc, recs |-> <<PresenceDrift(tag, res_name, TRUE, FALSE)>>]
    ELSE IF res_name \notin DOMAIN sfm
    THEN [exc |-> NoExc, recs |-> <<PresenceDrift(tag, res_name, FALSE, TRUE)>>]
    ELSE CompareAttrs(attrs.l \o <<PyStr(K_login_name)>>, tfm[res_name],
                      sfm[res_name], tag, res_name, r, syn)

\* DriftsForKey without the branch for a key that only tf_res_map holds
DriftsForKeyObservedOnly(res_name, tfm, sfm, r, attrs, syn) ==
    LET tag == TfResourceType(r) IN
    IF res_name \notin DOMAIN tfm
    THEN [exc |-> NoExc, recs |-> <<PresenceDrift(tag, res_name, TRUE, FALSE)>>]
    ELSE IF res_name \notin DOMAIN sfm
    THEN [exc |-> NoExc, recs |-> <<>>]
    ELSE CompareAttrs(attrs.l, tfm[res_name], sfm[res_name], tag, res_name,
                      r, syn)

\* the body of the loop over the union of the keys, for one key
DriftsForKey(res_name, tfm, sfm, r, attrs, syn) ==
    LET tag == TfResourceType(r) IN
    IF res_name \notin DOMAIN tfm
    THEN [exc |-> NoExc, recs |-> <<PresenceDrift(tag, res_name, TRUE, FALSE)>>]
    ELSE IF res_name \notin DOMAIN sfm
    THEN [exc |-> NoExc, recs |-> <<PresenceDrift(tag, res_name, FALSE, TRUE)>>]
    ELSE CompareAttrs(attrs.l, tfm[res_name], sfm[res_name], tag, res_name,
                      r, syn)

---------------------------------------------------------------------------
(* The call as a state machine *)

Pending == [kind |-> "pending"]
Returned(value) == [kind |-> "return", value |-> value]
Raised(type, msg) == [kind |-> "raise", type |-> type, msg |-> msg]

\* lines 29-41: the argument checks and the initialisation of the locals
Validate ==
    /\ pc = "validate"
    /\ LET e == ValidateArgs(tf_state, sf_resources, resource, attributes,
                             synonyms)
       IN IF e # NoExc
          THEN /\ exc' = e
               /\ pc' = "except"
               /\ UNCHANGED idx
          ELSE /\ exc' = NoExc
               /\ pc' = "extract"
               /\ idx' = 1
    /\ UNCHANGED <<others, args, tf_resources, tf_res_map, sf_res_map, todo,
                   drifts,
                   outcome>>

\* lines 45-49: one iteration of the loop over tf_state.get("resources", [])
ExtractNext ==
    /\ pc = "extract"
    /\ LET groups == TfGroups(tf_state) IN
       IF ~Iterable(groups)
       THEN /\ exc' = Raise("TypeError")
            /\ pc' = "except"
            /\ UNCHANGED <<idx, tf_resources>>
       ELSE /\ idx <= Len(Iter(groups))
            /\ LET step == ExtractGroup(Iter(groups)[idx],
                                        TfResourceType(resource))
               IN IF step.exc # NoExc
                  THEN /\ exc' = step.exc
                       /\ pc' = "except"
                       /\ UNCHANGED <<idx, tf_resources>>
                  ELSE /\ tf_resources' = tf_resources \o step.recs
                       /\ idx' = idx + 1
                       /\ UNCHANGED <<pc, exc>>
    /\ UNCHANGED <<others, args, tf_res_map, sf_res_map, todo, drifts,
                   outcome>>

\* lines 52-57: the two maps by key and the union of their keys
BuildMaps ==
    /\ pc = "extract"
    /\ Iterable(TfGroups(tf_state))
    /\ idx > Len(Iter(TfGroups(tf_state)))
    /\ LET key_field == KeyField(resource)
           tfm == BuildMap(tf_resources, key_field)
           sfm == BuildMap(Iter(sf_resources), key_field)
       IN IF tfm.exc # NoExc \/ sfm.exc # NoExc
          THEN /\ exc' = (IF tfm.exc # NoExc THEN tfm.exc ELSE sfm.exc)
               /\ pc' = "except"
               /\ UNCHANGED <<tf_res_map, sf_res_map, todo>>
          ELSE /\ tf_res_map' = tfm.map
               /\ sf_res_map' = sfm.map
               /\ todo' = (DOMAIN tfm.map) \cup (DOMAIN sfm.map)
               /\ pc' = "compare"
               /\ UNCHANGED exc
    /\ UNCHANGED <<others, args, idx, tf_resources, drifts, outcome>>

\* lines 57-90: one iteration of the loop over the union of the keys; a set
\* is visited in no particular order
CompareNext ==
    /\ pc = "compare"
    /\ \E res_name \in todo :
         LET step == DriftsForKey(res_name, tf_res_map, sf_res_map, resource,
                                  attributes, synonyms)
         IN IF step.exc # NoExc
            THEN /\ exc' = step.exc
                 /\ pc' = "except"
                 /\ UNCHANGED <<todo, drifts>>
            ELSE /\ drifts' = drifts \o step.recs
                 /\ todo' = todo \ {res_name}
                 /\ UNCHANGED <<pc, exc>>
    /\ UNCHANGED <<others, args, idx, tf_resources, tf_res_map, sf_res_map, outcome>>

\* Return that empties the attributes list of the caller
ReturnConsumingAttributes ==
    /\ pc = "compare"
    /\ todo = {}
    /\ outcome' = Returned(drifts)
    /\ pc' = "done"
    /\ attributes' = PyList(<<>>)
    /\ UNCHANGED <<others, tf_state, sf_resources, resource, synonyms, locals,
                   exc>>

\* line 92: return drifts
Return ==
    /\ pc = "compare"
    /\ todo = {}
    /\ outcome' = Returned(drifts)
    /\ pc' = "done"
    /\ UNCHANGED <<others, args, locals, exc>>

\* lines 94-96: except ValueError
HandleValueError ==
    /\ pc = "except"
    /\ exc.type = "ValueError"
    /\ outcome' = Raised("RuntimeError", "Invalid input")
    /\ pc' = "raised"
    /\ UNCHANGED <<others, args, locals, exc>>

\* HandleException that swallows the error and returns an empty list
HandleExceptionSwallowed ==
    /\ pc = "except"
    /\ exc.type # "ValueError"
    /\ outcome' = Returned(<<>>)
    /\ pc' = "done"
    /\ UNCHANGED <<others, args, locals, exc>>

\* lines 97-99: except Exception
HandleException ==
    /\ pc = "except"
    /\ exc.type # "ValueError"
    /\ outcome' = Raised("RuntimeError", "Failed to compare resources")
    /\ pc' = "raised"
    /\ UNCHANGED <<others, args, locals, exc>>

Next ==
    \/ Validate
    \/ ExtractNext
    \/ BuildMaps
    \/ CompareNext
    \/ Return
    \/ HandleValueError
    \/ HandleException

---------------------------------------------------------------------------
(* The result of a call as a function of its arguments, built from the    *)
(* same steps: what the caller sees, with the returned list as a set      *)
(* because the loop visits the keys in no particular order                *)

\* the loop over the groups, from the first to the last
RECURSIVE ExtractAll(_, _)
ExtractAll(groups, tag) ==
    IF groups = <<>> THEN [exc |-> NoExc, recs |-> <<>>]
    ELSE LET step == ExtractGroup(Head(groups), tag) IN
         IF step.exc # NoExc THEN step
         ELSE LET rest == ExtractAll(Tail(groups), tag) IN
              [exc |-> rest.exc, recs |-> step.recs \o rest.recs]

Seen(o) ==
    IF o.kind = "return"
    THEN [kind |-> "return", records |-> Range(o.value)]
    ELSE o

CompareResources(tf, sf, r, attrs, syn) ==
    IF ValidateArgs(tf, sf, r, attrs, syn) # NoExc
    THEN Raised("RuntimeError", "Invalid input")
    ELSE IF ~Iterable(TfGroups(tf))
    THEN Raised("RuntimeError", "Failed to compare resources")
    ELSE
    LET ext == ExtractAll(Iter(TfGroups(tf)), TfResourceType(r))
        tfm == BuildMap(ext.recs, KeyField(r))
        sfm == BuildMap(Iter(sf), KeyField(r))
    IN
    IF ext.exc # NoExc \/ tfm.exc # NoExc \/ sfm.exc # NoExc
    THEN Raised("RuntimeError", "Failed to compare resources")
    ELSE
    LET keys == (DOMAIN tfm.map) \cup (DOMAIN sfm.map)
        body(k) == DriftsForKey(k, tfm.map, sfm.map, r, attrs, syn)
    IN
    IF \E k \in keys : body(k).exc # NoExc
    THEN Raised("RuntimeError", "Failed to compare resources")
    ELSE [kind |-> "return",
          records |-> UNION {Range(body(k).recs) : k \in keys}]

---------------------------------------------------------------------------
(* main of SNOWDRIFT.py: the critical steps, one process_account thread    *)
(* per configured account, the collection of the futures and the emails.  *)
(* The collaborators (KeePass, Vault, Terraform Cloud, Snowflake, the     *)
(* file system, SMTP) succeed or fail without the model saying why.       *)

\* a local variable that no assignment has bound yet
Unbound == [t |-> "unbound"]

\* an element of the accounts configuration: whether it holds every
\* required field as a non-empty string, whether SENDER_EMAIL and
\* EMAIL_RECIPIENTS are both truthy, and its workspace name
Account(valid, mail, ws) ==
    [valid |-> valid, mail |-> mail, TFC_WORKSPACE_NAME |-> ws]

\* the resource types of the drift configuration, in its order
resource_config == <<"warehouse", "user">>

\* an entry of a list of failures: 0 stands for main itself
Failure(who, what, res) == [who |-> who, what |-> what, res |-> res]

\* contents of a file: it does not exist, it was opened for writing and
\* holds nothing yet, or it holds what the account of that number wrote
Missing == 0
Truncated == -1

Accounts == IF IsList(account_config) THEN DOMAIN account_config.l ELSE {}

Workspace(a) == account_config.l[a].TFC_WORKSPACE_NAME

\* lines 53-72: the arguments and the environment; an exception goes to
\* the handler of lines 341-344
Setup ==
    /\ main_pc = "setup"
    /\ \/ /\ main_pc' = "paths"
          /\ UNCHANGED failures
       \/ /\ failures' = failures \cup {Failure(0, "unexpected", "")}
          /\ main_pc' = "summary"
    /\ UNCHANGED <<compareVars, queryVars, send_consolidated_email,
                   account_config, account_drift_summary, collected,
                   acctLocals, tf_statefile, output_file, emails>>

\* a critical step: it succeeds, or it records a failure and main returns
Critical(here, next, what) ==
    /\ main_pc = here
    /\ \/ /\ main_pc' = next
          /\ UNCHANGED failures
       \/ /\ failures' = failures \cup {Failure(0, what, "")}
          /\ main_pc' = "exit"
    /\ UNCHANGED <<compareVars, queryVars, send_consolidated_email,
                   account_drift_summary, collected, acctLocals,
                   tf_statefile, output_file, emails>>

\* lines 76-86
CheckPaths == Critical("paths", "token", "path") /\ UNCHANGED account_config

\* lines 88-100
GetToken == Critical("token", "accounts", "token") /\ UNCHANGED account_config

\* the accounts configurations of the model: none, one account, two
\* accounts of different workspaces, two of the same workspace, an invalid
\* first account without sender, a valid first account without recipients
AccountConfigs ==
    {<<>>,
     <<Account(TRUE, TRUE, "ws1")>>,
     <<Account(TRUE, TRUE, "ws1"), Account(TRUE, TRUE, "ws2")>>,
     <<Account(TRUE, TRUE, "ws1"), Account(TRUE, TRUE, "ws1")>>,
     <<Account(FALSE, FALSE, "ws1"), Account(TRUE, TRUE, "ws2")>>,
     <<Account(TRUE, FALSE, "ws1"), Account(FALSE, TRUE, "ws2")>>}

\* lines 102-109
LoadAccountConfig ==
    /\ Critical("accounts", "synonyms", "accounts")
    /\ IF main_pc' = "exit"
       THEN account_config' = PyNone
       ELSE \E cfg \in AccountConfigs : account_config' = PyList(cfg)

\* lines 111-118
LoadSynonyms ==
    Critical("synonyms", "resources", "synonyms") /\ UNCHANGED account_config

\* lines 120-127
LoadResourceConfig ==
    Critical("resources", "submit", "resources") /\ UNCHANGED account_config

\* lines 308-309 and 138-144: one future per account
Submit ==
    /\ main_pc = "submit"
    /\ main_pc' = "pool"
    /\ collected' = [a \in Accounts |-> "no"]
    /\ acct_pc' = [a \in Accounts |-> "start"]
    /\ acct_exc' = [a \in Accounts |-> "none"]
    /\ acct_tf_state' = [a \in Accounts |-> Missing]
    /\ res_idx' = [a \in Accounts |-> 1]
    /\ sf_result' = [a \in Accounts |-> "none"]
    /\ output' = [a \in Accounts |-> <<>>]
    /\ account_failures' = [a \in Accounts |-> {}]
    /\ drift_summary' = [a \in Accounts |->
                           [total_drifts |-> 0, output_file |-> ""]]
    /\ UNCHANGED <<compareVars, queryVars, send_consolidated_email,
                   account_config, failures, account_drift_summary,
                   tf_statefile, output_file, emails>>

\* what a step of process_account leaves alone besides its own variables
AccountFrame ==
    UNCHANGED <<compareVars, queryVars, main_pc, send_consolidated_email,
                account_config, failures, account_drift_summary, collected>>

\* return ([error], drift_summary)
ReturnError(a, what) ==
    /\ account_failures' = [account_failures EXCEPT
                              ![a] = {Failure(a, what, "")}]
    /\ acct_pc' = [acct_pc EXCEPT ![a] = "returned"]

\* lines 146-181: the checks of the account configuration
CheckAccount(a) ==
    /\ main_pc = "pool"
    /\ acct_pc[a] = "start"
    /\ IF account_config.l[a].valid
       THEN /\ acct_pc' = [acct_pc EXCEPT ![a] = "acquire"]
            /\ UNCHANGED account_failures
       ELSE ReturnError(a, "configuration")
    /\ UNCHANGED <<acct_exc, acct_tf_state, res_idx, sf_result, output,
                   drift_summary, tf_statefile, output_file, emails>>
    /\ AccountFrame

\* lines 183-229: the Vault credentials, the Vault client, the private key,
\* the workspace id and the download URL; each may be None
Acquire(a) ==
    /\ main_pc = "pool"
    /\ acct_pc[a] = "acquire"
    /\ \/ /\ acct_pc' = [acct_pc EXCEPT ![a] = "download"]
          /\ UNCHANGED account_failures
       \/ ReturnError(a, "credentials")
    /\ UNCHANGED <<acct_exc, acct_tf_state, res_idx, sf_result, output,
                   drift_summary, tf_statefile, output_file, emails>>
    /\ AccountFrame

\* terraform_utils.download_state_file, lines 165-169: the request, which
\* may fail with RuntimeError, and open(tf_statefilename, "wb"), which
\* empties the file of the workspace name
DownloadState(a) ==
    /\ main_pc = "pool"
    /\ acct_pc[a] = "download"
    /\ \/ /\ acct_pc' = [acct_pc EXCEPT ![a] = "write"]
          /\ tf_statefile' = [tf_statefile EXCEPT ![Workspace(a)] = Truncated]
          /\ UNCHANGED acct_exc
       \/ /\ acct_pc' = [acct_pc EXCEPT ![a] = "raised"]
          /\ acct_exc' = [acct_exc EXCEPT ![a] = "download"]
          /\ UNCHANGED tf_statefile
    /\ UNCHANGED <<acct_tf_state, res_idx, sf_result, output,
                   account_failures, drift_summary, output_file, emails>>
    /\ AccountFrame

\* terraform_utils.download_state_file, line 170: the content is written
\* and the file closed
WriteStateFile(a) ==
    /\ main_pc = "pool"
    /\ acct_pc[a] = "write"
    /\ tf_statefile' = [tf_statefile EXCEPT ![Workspace(a)] = a]
    /\ acct_pc' = [acct_pc EXCEPT ![a] = "read"]
    /\ UNCHANGED <<acct_exc, acct_tf_state, res_idx, sf_result, output,
                   account_failures, drift_summary, output_file, emails>>
    /\ AccountFrame

\* terraform_utils.download_state_file, lines 173-180 and 191-193: the file
\* is opened again and parsed; an empty file is no JSON, and the
\* RuntimeError leaves process_account
ReadStateFile(a) ==
    /\ main_pc = "pool"
    /\ acct_pc[a] = "read"
    /\ IF tf_statefile[Workspace(a)] = Truncated
       THEN /\ acct_pc' = [acct_pc EXCEPT ![a] = "raised"]
            /\ acct_exc' = [acct_exc EXCEPT ![a] = "state file"]
            /\ UNCHANGED acct_tf_state
       ELSE /\ acct_pc' = [acct_pc EXCEPT ![a] = "query"]
            /\ acct_tf_state' = [acct_tf_state EXCEPT
                                   ![a] = tf_statefile[Workspace(a)]]
            /\ UNCHANGED acct_exc
    /\ UNCHANGED <<res_idx, sf_result, output, account_failures,
                   drift_summary, tf_statefile, output_file, emails>>
    /\ AccountFrame

\* lines 241-256: the query of the next resource type; None is recorded as
\* a failure and the loop continues
Query(a) ==
    /\ main_pc = "pool"
    /\ acct_pc[a] = "query"
    /\ res_idx[a] <= Len(resource_config)
    /\ \/ /\ sf_result' = [sf_result EXCEPT ![a] = "rows"]
          /\ acct_pc' = [acct_pc EXCEPT ![a] = "compare"]
          /\ UNCHANGED <<res_idx, account_failures>>
       \/ /\ sf_result' = [sf_result EXCEPT ![a] = "None"]
          /\ account_failures' =
                 [account_failures EXCEPT
                    ![a] = @ \cup {Failure(a, "query",
                                           resource_config[res_idx[a]])}]
          /\ res_idx' = [res_idx EXCEPT ![a] = @ + 1]
          /\ UNCHANGED acct_pc
    /\ UNCHANGED <<acct_exc, acct_tf_state, output, drift_summary,
                   tf_statefile, output_file, emails>>
    /\ AccountFrame

\* lines 259-266: compare_resources returns a list, empty or not, which is
\* stored in output, or raises RuntimeError, which leaves process_account;
\* it never returns None
Compare(a) ==
    /\ main_pc = "pool"
    /\ acct_pc[a] = "compare"
    /\ \/ /\ \E drift_list \in {"empty", "drift"} :
               output' = [output EXCEPT
                            ![a] = [r \in DOMAIN output[a]
                                            \cup {resource_config[res_idx[a]]} |->
                                      IF r = resource_config[res_idx[a]]
                                      THEN drift_list
                                      ELSE output[a][r]]]
          /\ res_idx' = [res_idx EXCEPT ![a] = @ + 1]
          /\ acct_pc' = [acct_pc EXCEPT ![a] = "query"]
          /\ UNCHANGED acct_exc
       \/ /\ acct_pc' = [acct_pc EXCEPT ![a] = "raised"]
          /\ acct_exc' = [acct_exc EXCEPT ![a] = "compare"]
          /\ UNCHANGED <<output, res_idx>>
    /\ UNCHANGED <<acct_tf_state, sf_result, account_failures, drift_summary,
                   tf_statefile, output_file, emails>>
    /\ AccountFrame

\* any(drifts for drifts in output.values())
has_drifts(a) == \E r \in DOMAIN output[a] : output[a][r] = "drift"

\* the resource types of output with a drift list that is not empty; every
\* such list of the model holds one record
DriftTypes(a) == {r \in DOMAIN output[a] : output[a][r] = "drift"}

\* SaveOutput that goes on to the drift email whatever the flag says
SaveOutputAlwaysMail(a) ==
    /\ main_pc = "pool"
    /\ acct_pc[a] = "query"
    /\ res_idx[a] > Len(resource_config)
    /\ IF ~has_drifts(a)
       THEN /\ acct_pc' = [acct_pc EXCEPT ![a] = "returned"]
            /\ UNCHANGED <<account_failures, drift_summary, output_file>>
       ELSE \/ /\ output_file' = [output_file EXCEPT ![Workspace(a)] = a]
               /\ drift_summary' =
                      [drift_summary EXCEPT
                         ![a] = [total_drifts |-> Cardinality(DriftTypes(a)),
                                 output_file |-> Workspace(a)]]
               /\ acct_pc' = [acct_pc EXCEPT ![a] = "mail"]
               /\ UNCHANGED account_failures
            \/ /\ account_failures' =
                      [account_failures EXCEPT
                         ![a] = @ \cup {Failure(a, "write", "")}]
               /\ acct_pc' = [acct_pc EXCEPT ![a] = "returned"]
               /\ UNCHANGED <<drift_summary, output_file>>
    /\ UNCHANGED <<acct_exc, acct_tf_state, res_idx, sf_result, output,
                   tf_statefile, emails>>
    /\ AccountFrame

\* lines 268-285 and 298-303, after the last resource type: without drift
\* the account returns; with drift the output is written to the file of the
\* workspace name and the summary filled in, or the write fails and the
\* failure is recorded
SaveOutput(a) ==
    /\ main_pc = "pool"
    /\ acct_pc[a] = "query"
    /\ res_idx[a] > Len(resource_config)
    /\ IF ~has_drifts(a)
       THEN /\ acct_pc' = [acct_pc EXCEPT ![a] = "returned"]
            /\ UNCHANGED <<account_failures, drift_summary, output_file>>
       ELSE \/ /\ output_file' = [output_file EXCEPT ![Workspace(a)] = a]
               /\ drift_summary' =
                      [drift_summary EXCEPT
                         ![a] = [total_drifts |-> Cardinality(DriftTypes(a)),
                                 output_file |-> Workspace(a)]]
               /\ acct_pc' = [acct_pc EXCEPT
                                ![a] = IF send_consolidated_email
                                       THEN "returned" ELSE "mail"]
               /\ UNCHANGED account_failures
            \/ /\ account_failures' =
                      [account_failures EXCEPT
                         ![a] = @ \cup {Failure(a, "write", "")}]
               /\ acct_pc' = [acct_pc EXCEPT ![a] = "returned"]
               /\ UNCHANGED <<drift_summary, output_file>>
    /\ UNCHANGED <<acct_exc, acct_tf_state, res_idx, sf_result, output,
                   tf_statefile, emails>>
    /\ AccountFrame

\* an email: its kind, the account it is about (0 for none) and, for a
\* drift email, the account whose output the attached file holds
Email(kind, account, attached) ==
    [kind |-> kind, account |-> account, attached |-> attached]

\* lines 287-297 and mail_utils.send_drift_email lines 190-201: the drift
\* email of the account, with the file of the workspace name attached
SendDriftEmail(a) ==
    /\ main_pc = "pool"
    /\ acct_pc[a] = "mail"
    /\ emails' = Append(emails,
                        Email("drift", a, output_file[Workspace(a)]))
    /\ acct_pc' = [acct_pc EXCEPT ![a] = "returned"]
    /\ UNCHANGED <<acct_exc, acct_tf_state, res_idx, sf_result, output,
                   account_failures, drift_summary, tf_statefile,
                   output_file>>
    /\ AccountFrame

\* Collect that stops the loop at the first future that raised
CollectUntilException(a) ==
    /\ main_pc = "pool"
    /\ collected[a] = "no"
    /\ acct_pc[a] \in {"returned", "raised"}
    /\ IF acct_pc[a] = "returned"
       THEN /\ failures' = failures \cup account_failures[a]
            /\ account_drift_summary' =
                   IF drift_summary[a].total_drifts > 0
                   THEN account_drift_summary \cup {a}
                   ELSE account_drift_summary
            /\ collected' = [collected EXCEPT ![a] = "pair"]
            /\ UNCHANGED main_pc
       ELSE /\ failures' = failures \cup {Failure(a, "exception", "")}
            /\ collected' = [collected EXCEPT ![a] = "failure"]
            /\ main_pc' = "summary"
            /\ UNCHANGED account_drift_summary
    /\ UNCHANGED <<compareVars, queryVars, send_consolidated_email,
                   account_config, acctLocals, tf_statefile, output_file,
                   emails>>

\* lines 310-322: one iteration of the loop over as_completed, for a future
\* that is done; its pair is merged, or its exception is recorded
Collect(a) ==
    /\ main_pc = "pool"
    /\ collected[a] = "no"
    /\ acct_pc[a] \in {"returned", "raised"}
    /\ IF acct_pc[a] = "returned"
       THEN /\ failures' = failures \cup account_failures[a]
            /\ account_drift_summary' =
                   IF drift_summary[a].total_drifts > 0
                   THEN account_drift_summary \cup {a}
                   ELSE account_drift_summary
            /\ collected' = [collected EXCEPT ![a] = "pair"]
       ELSE /\ failures' = failures \cup {Failure(a, "exception", "")}
            /\ collected' = [collected EXCEPT ![a] = "failure"]
            /\ UNCHANGED account_drift_summary
    /\ UNCHANGED <<compareVars, queryVars, main_pc, send_consolidated_email,
                   account_config, acctLocals, tf_statefile, output_file,
                   emails>>

\* account_config[0].get("SENDER_EMAIL") and .get("EMAIL_RECIPIENTS") are
\* both truthy, for a list that is not empty
FallbackAddress ==
    /\ IsList(account_config)
    /\ Len(account_config.l) > 0
    /\ account_config.l[1].mail

\* lines 324-336, once the loop over as_completed has ended
Consolidated ==
    /\ main_pc = "pool"
    /\ \A a \in Accounts : collected[a] # "no"
    /\ emails' = IF /\ send_consolidated_email
                    /\ account_drift_summary # {}
                    /\ FallbackAddress
                 THEN Append(emails, Email("consolidated", 0, Missing))
                 ELSE emails
    /\ main_pc' = "summary"
    /\ UNCHANGED <<compareVars, queryVars, send_consolidated_email,
                   account_config, failures, account_drift_summary,
                   collected, acctLocals, tf_statefile, output_file>>

\* lines 346-361: the failure email; account_config is read although the
\* handler of lines 341-344 may get here before it was assigned
Summary ==
    /\ main_pc = "summary"
    /\ IF failures = {}
       THEN /\ main_pc' = "exit"
            /\ UNCHANGED emails
       ELSE IF account_config = Unbound
       THEN /\ main_pc' = "crashed"
            /\ UNCHANGED emails
       ELSE /\ main_pc' = "exit"
            /\ emails' = IF FallbackAddress
                         THEN Append(emails, Email("failure", 0, Missing))
                         ELSE emails
    /\ UNCHANGED <<compareVars, queryVars, send_consolidated_email,
                   account_config, failures, account_drift_summary,
                   collected, acctLocals, tf_statefile, output_file>>

NextMain ==
    \/ Setup
    \/ CheckPaths
    \/ GetToken
    \/ LoadAccountConfig
    \/ LoadSynonyms
    \/ LoadResourceConfig
    \/ Submit
    \/ \E a \in Accounts : CheckAccount(a)
    \/ \E a \in Accounts : Acquire(a)
    \/ \E a \in Accounts : DownloadState(a)
    \/ \E a \in Accounts : WriteStateFile(a)
    \/ \E a \in Accounts : ReadStateFile(a)
    \/ \E a \in Accounts : Query(a)
    \/ \E a \in Accounts : Compare(a)
    \/ \E a \in Accounts : SaveOutput(a)
    \/ \E a \in Accounts : SendDriftEmail(a)
    \/ \E a \in Accounts : Collect(a)
    \/ Consolidated
    \/ Summary

Workspaces == {"ws1", "ws2"}

\* main before its first step
MainStart ==
    /\ main_pc = "setup"
    /\ account_config = Unbound
    /\ failures = {}
    /\ account_drift_summary = {}
    /\ collected = <<>>
    /\ acct_pc = <<>>
    /\ acct_exc = <<>>
    /\ acct_tf_state = <<>>
    /\ res_idx = <<>>
    /\ sf_result = <<>>
    /\ output = <<>>
    /\ account_failures = <<>>
    /\ drift_summary = <<>>
    /\ tf_statefile = [w \in Workspaces |-> Missing]
    /\ output_file = [w \in Workspaces |-> Missing]
    /\ emails = <<>>

\* main is not running
MainIdle ==
    /\ main_pc = "idle"
    /\ send_consolidated_email = FALSE
    /\ account_config = Unbound
    /\ failures = {}
    /\ account_drift_summary = {}
    /\ collected = <<>>
    /\ acct_pc = <<>>
    /\ acct_exc = <<>>
    /\ acct_tf_state = <<>>
    /\ res_idx = <<>>
    /\ sf_result = <<>>
    /\ output = <<>>
    /\ account_failures = <<>>
    /\ drift_summary = <<>>
    /\ tf_statefile = <<>>
    /\ output_file = <<>>
    /\ emails = <<>>

---------------------------------------------------------------------------
(* The inputs of the model: strings, records and documents *)

S_warehouse == <<"w","a","r","e","h","o","u","s","e">>

S_user == <<"u","s","e","r">>

S_User == <<"U","s","e","r">>

S_role == <<"r","o","l","e">>

A_size == <<"s","i","z","e">>

A_comment == <<"c","o","m","m","e","n","t">>

V_wh1 == <<"w","h","1">>

V_wh2 == <<"w","h","2">>

V_zz == <<"z","z">>

V_xs == <<"x","s">>

V_XS == <<"X","S">>

V_X_SMALL == <<"X","-","S","M","A","L","L">>

\* marks a field a record does not have
Absent == [t |-> "absent"]

\* the dict of the fields that are not Absent
Record(nm, ln, sz) ==
    LET val(k) == CASE k = K_name -> nm
                    [] k = K_login_name -> ln
                    [] OTHER -> sz
    IN PyDict([k \in {f \in {K_name, K_login_name, A_size} : val(f) # Absent}
                 |-> val(k)])

\* the attribute mappings either side may hold: two records of equal
\* login_name and different name and size, a record without login_name, and
\* a record without either key field
Records ==
    {Record(PyStr(V_wh1), PyStr(V_wh2), PyStr(V_xs)),
     Record(PyStr(V_wh2), PyStr(V_wh2), PyStr(V_X_SMALL)),
     Record(PyStr(V_wh1), Absent, PyStr(V_X_SMALL)),
     Record(Absent, Absent, PyStr(V_xs))}

SeqsUpTo(S, n) == UNION {[1..m -> S] : m \in 0..n}

Instance(rec) == Dict1(K_attributes, rec)

Group(type, recs) ==
    Dict2(K_type, PyStr(type),
          K_instances, PyList([i \in 1..Len(recs) |-> Instance(recs[i])]))

StateDoc(groups) == Dict1(K_resources, PyList(groups))

\* a group of another resource type, which no comparison of the model asks for
RoleGroup ==
    Group(SnowflakePrefix \o S_role,
          <<Record(PyStr(V_zz), PyStr(V_zz), PyStr(V_xs))>>)

\* {"warehouse": {"size": {"XS": "X-SMALL"}}}
SynonymTable ==
    Dict1(S_warehouse, Dict1(A_size, Dict1(V_XS, PyStr(V_X_SMALL))))

ResourceTypes == {PyStr(S_warehouse), PyStr(S_user), PyStr(S_User)}

AttributeList == PyList(<<PyStr(A_size), PyStr(K_name)>>)

InitLocals ==
    /\ pc = "validate"
    /\ idx = 0
    /\ tf_resources = <<>>
    /\ tf_res_map = <<>>
    /\ sf_res_map = <<>>
    /\ todo = {}
    /\ drifts = <<>>
    /\ exc = NoExc
    /\ outcome = Pending

\* well-formed arguments: the records of both sides vary
InitWellFormed ==
    /\ resource \in ResourceTypes
    /\ attributes = AttributeList
    /\ synonyms = SynonymTable
    /\ \E recs \in SeqsUpTo(Records, MaxTf) :
         tf_state = StateDoc(<<RoleGroup,
                               Group(TfResourceType(resource), recs)>>)
    /\ \E recs \in SeqsUpTo(Records, MaxSf) : sf_resources = PyList(recs)

WarehouseTag == SnowflakePrefix \o S_warehouse

Wh1Small == Record(PyStr(V_wh1), Absent, PyStr(V_xs))
Wh1Large == Record(PyStr(V_wh1), Absent, PyStr(V_X_SMALL))
Wh2Small == Record(PyStr(V_wh2), Absent, PyStr(V_xs))

\* the elements tf_state["resources"] may hold: well-formed groups, and
\* groups and instances of every malformed shape
GroupShapes ==
    {Group(WarehouseTag, <<Wh1Small>>),
     Group(WarehouseTag, <<Wh2Small>>),
     RoleGroup,
     PyStr(V_zz),
     PyNone,
     Dict1(K_instances, PyList(<<Instance(Wh2Small)>>)),
     Dict1(K_type, PyStr(WarehouseTag)),
     Dict2(K_type, PyStr(WarehouseTag), K_instances, PyNone),
     Dict2(K_type, PyStr(WarehouseTag),
           K_instances, PyList(<<PyStr(V_zz), Instance(Wh2Small)>>)),
     Dict2(K_type, PyStr(WarehouseTag),
           K_instances, PyList(<<Dict1(K_name, PyStr(V_wh2))>>)),
     Dict2(K_type, PyStr(WarehouseTag),
           K_instances, PyList(<<Instance(PyNone)>>))}

\* state documents of every shape: no mapping, no `resources`, `resources`
\* that is no list, and lists of the group shapes
StateDocs ==
    {PyNone, PyList(<<>>), EmptyDict, Dict1(K_type, PyStr(V_zz)),
     Dict1(K_resources, PyNone)}
    \cup {StateDoc(groups) : groups \in SeqsUpTo(GroupShapes, MaxGroups)}

\* arguments with a state document of any shape
InitAnyState ==
    /\ resource = PyStr(S_warehouse)
    /\ attributes = AttributeList
    /\ synonyms \in {EmptyDict, SynonymTable}
    /\ tf_state \in StateDocs
    /\ sf_resources \in {PyList(<<>>), PyList(<<Wh1Large>>)}

\* the elements sf_resources may hold: records, and values that are no
\* mapping
ObservedShapes ==
    {Wh1Large,
     Wh2Small,
     PyStr(V_zz),
     PyStr(V_zz \o K_name),
     PyInt(5),
     PyNone,
     PyList(<<>>),
     PyList(<<PyStr(K_name)>>),
     Dict1(K_name, PyList(<<>>))}

\* arguments with an observed list of any shape
InitAnyObserved ==
    /\ resource = PyStr(S_warehouse)
    /\ attributes = AttributeList
    /\ synonyms = SynonymTable
    /\ tf_state \in {StateDoc(<<>>), StateDoc(<<Group(WarehouseTag, <<Wh1Small>>)>>)}
    /\ sf_resources \in
         {PyNone, PyStr(V_zz), Wh1Large}
         \cup {PyList(elems) : elems \in SeqsUpTo(ObservedShapes, MaxObserved)}

\* arguments of every type and emptiness for resource, attributes, synonyms
InitAnyArgs ==
    /\ resource \in {PyNone, PyInt(7), PyStr(<<>>), PyStr(<<" ", " ">>),
                     PyStr(S_warehouse), PyStr(S_user)}
    /\ attributes \in {PyNone, PyStr(A_size), PyList(<<>>),
                       PyList(<<PyInt(7)>>),
                       PyList(<<PyStr(A_size), PyStr(<<>>)>>),
                       PyList(<<PyStr(<<" ">>), PyStr(A_size)>>),
                       PyList(<<PyStr(A_size)>>),
                       PyList(<<PyStr(A_size), PyStr(A_size)>>),
                       PyList(<<PyStr(A_comment)>>),
                       AttributeList}
    /\ synonyms \in {PyNone, PyList(<<>>), EmptyDict, SynonymTable,
                     Dict1(S_warehouse, PyNone),
                     Dict1(S_warehouse, Dict1(A_size, PyNone))}
    /\ tf_state \in {StateDoc(<<>>), StateDoc(<<Group(WarehouseTag, <<Wh1Small>>)>>)}
    /\ sf_resources \in {PyList(<<>>), PyList(<<Wh1Large>>)}

A_SIZE == <<"S","I","Z","E">>

K_NAME == <<"N","A","M","E">>

V_x_small == <<"x","-","s","m","a","l","l">>

V_null == <<"n","u","l","l">>

V_XL == <<"X","L">>

\* a record named wh1 that stores its name under name_key and, unless the
\* value is Absent, its size under size_key
ValueRecord(name_key, size_key, sz) ==
    PyDict([k \in {name_key} \cup (IF sz = Absent THEN {} ELSE {size_key}) |->
              IF k = name_key THEN PyStr(V_wh1) ELSE sz])

\* the values an attribute may hold: missing, null, strings in several
\* spellings, the string "null", and a number
AttributeValues ==
    {Absent, PyNone, PyStr(V_xs), PyStr(V_XS), PyStr(V_X_SMALL),
     PyStr(V_x_small), PyStr(V_null), PyInt(1)}

SizeTable(tbl) == Dict1(S_warehouse, Dict1(A_size, tbl))

\* synonym tables: none for the resource, none for the attribute, the
\* identity, one synonym, a chain of two, a canonical value in lower case,
\* and an entry for "NULL"
SynonymTables ==
    {EmptyDict,
     Dict1(S_warehouse, EmptyDict),
     SizeTable(EmptyDict),
     SizeTable(Dict2(V_XS, PyStr(V_XS), V_X_SMALL, PyStr(V_X_SMALL))),
     SynonymTable,
     SizeTable(Dict2(V_XS, PyStr(V_X_SMALL), V_X_SMALL, PyStr(V_XL))),
     SizeTable(Dict1(V_XS, PyStr(V_x_small))),
     SizeTable(Dict1(NullStr, PyStr(V_XS)))}

\* one declared and one observed record of the same name: the values of the
\* attribute, the spelling of the field names and the synonym table vary
InitAttributeValues ==
    /\ resource = PyStr(S_warehouse)
    /\ attributes \in {PyList(<<PyStr(A_size)>>), PyList(<<PyStr(A_SIZE)>>)}
    /\ synonyms \in SynonymTables
    /\ \E v \in AttributeValues :
         tf_state = StateDoc(<<Group(WarehouseTag,
                                     <<ValueRecord(K_name, A_size, v)>>)>>)
    /\ \E v \in AttributeValues, nk \in {K_name, K_NAME},
          sk \in {A_size, A_SIZE} :
         sf_resources = PyList(<<ValueRecord(nk, sk, v)>>)

V_WH1 == <<"W","H","1">>

\* records whose names differ in letter case alone
KeyCaseRecords ==
    {Record(PyStr(V_wh1), Absent, PyStr(V_xs)),
     Record(PyStr(V_WH1), Absent, PyStr(V_xs)),
     Record(PyStr(V_WH1), Absent, PyStr(V_X_SMALL))}

\* well-formed arguments whose keys vary in letter case
InitKeyCase ==
    /\ resource = PyStr(S_warehouse)
    /\ attributes = AttributeList
    /\ synonyms = SynonymTable
    /\ \E recs \in SeqsUpTo(KeyCaseRecords, MaxTf) :
         tf_state = StateDoc(<<Group(WarehouseTag, recs)>>)
    /\ \E recs \in SeqsUpTo(KeyCaseRecords, MaxSf) : sf_resources = PyList(recs)

---------------------------------------------------------------------------
(* get_snowflake_resources of utils/snowflake_utils.py, the copy that      *)
(* SNOWDRIFT.py imports, and of snowflake_utils.py, which raises where the *)
(* other returns None and fetches the first result set before it asks for  *)
(* the next.  q_variant says which of the two runs.                        *)

MaxRows == 2    \* rows of one result set

\* str.strip() at the front, which is all that startswith looks at
RECURSIVE LStrip(_)
LStrip(s) ==
    IF s # <<>> /\ Head(s) \in Whitespace THEN LStrip(Tail(s)) ELSE s

StartsWith(s, prefix) ==
    Len(s) >= Len(prefix) /\ SubSeq(s, 1, Len(prefix)) = prefix

\* sql_query.strip().upper().startswith("SHOW")
IsShow(q) == StartsWith(Upper(LStrip(q.s)), <<"S","H","O","W">>)

\* cursor.description of every result set of the model: the column names
\* as Snowflake spells them for SHOW WAREHOUSES
Description == <<K_name, A_size>>

\* columns = [col[0].upper() for col in cursor.description]
Columns == [i \in 1..Len(Description) |-> Upper(Description[i])]

\* col_index = {col: idx for idx, col in enumerate(columns)}
ColIndex == [c \in Range(Columns) |-> CHOOSE i \in 1..Len(Columns) : Columns[i] = c]

\* the checks of the arguments; the connection parameters are valid in
\* every call of the model
QueryArgsValid ==
    /\ IsStr(resource) /\ StripNonEmpty(resource.s)
    /\ IsStr(sql_query) /\ StripNonEmpty(sql_query.s)
    /\ IsList(attributes) /\ attributes.l # <<>>
    /\ \A i \in 1..Len(attributes.l) :
           IsStr(attributes.l[i]) /\ StripNonEmpty(attributes.l[i].s)

\* an exception raised inside the try block
Throw(type) ==
    /\ q_exc' = type
    /\ q_pc' = "except"
    /\ UNCHANGED q_outcome

\* a condition that utils/snowflake_utils.py answers with `return None`
\* and snowflake_utils.py with an exception of the type
Reject(type) ==
    IF q_variant = "utils"
    THEN /\ q_outcome' = Returned(PyNone)
         /\ q_pc' = "finally"
         /\ UNCHANGED q_exc
    ELSE Throw(type)

QueryFrame == UNCHANGED <<compareVars, mainVars, q_variant, sql_query, result_sets>>

\* lines 33-42
QValidate ==
    /\ q_pc = "validate"
    /\ IF QueryArgsValid
       THEN /\ q_pc' = "key"
            /\ UNCHANGED <<q_exc, q_outcome>>
       ELSE Reject("ValueError")
    /\ UNCHANGED <<q_set, conn, cursor, rows>>
    /\ QueryFrame

\* lines 45-58: the private key is loaded, or is no PEM key
LoadKey ==
    /\ q_pc = "key"
    /\ \/ /\ q_pc' = "connect"
          /\ UNCHANGED <<q_exc, q_outcome>>
       \/ Reject("ValueError")
    /\ UNCHANGED <<q_set, conn, cursor, rows>>
    /\ QueryFrame

\* lines 62-71: snowflake.connector.connect
Connect ==
    /\ q_pc = "connect"
    /\ \/ /\ conn' = "open"
          /\ q_pc' = "cursor"
          /\ UNCHANGED <<q_exc, q_outcome>>
       \/ /\ Throw("DatabaseError")
          /\ UNCHANGED conn
    /\ UNCHANGED <<q_set, cursor, rows>>
    /\ QueryFrame

\* line 74: conn.cursor()
OpenCursor ==
    /\ q_pc = "cursor"
    /\ \/ /\ cursor' = "open"
          /\ q_pc' = "execute"
          /\ UNCHANGED <<q_exc, q_outcome>>
       \/ /\ Throw("DatabaseError")
          /\ UNCHANGED cursor
    /\ UNCHANGED <<q_set, conn, rows>>
    /\ QueryFrame

\* lines 77-78 and 82: cursor.execute leaves the cursor on the first result
\* set; utils/snowflake_utils.py asks for the next set of a SHOW statement
\* before it fetches anything
Execute ==
    /\ q_pc = "execute"
    /\ \/ /\ q_set' = 1
          /\ q_pc' = IF IsShow(sql_query) /\ q_variant = "utils"
                     THEN "nextset" ELSE "fetch"
          /\ UNCHANGED <<q_exc, q_outcome>>
       \/ /\ Throw("DatabaseError")
          /\ UNCHANGED q_set
    /\ UNCHANGED <<conn, cursor, rows>>
    /\ QueryFrame

\* cursor.fetchall(): line 80 of utils/snowflake_utils.py binds rows to the
\* rows of the set; lines 79 and 81 of snowflake_utils.py bind rows to the
\* first set and extend it by the later ones; line 83 is the fetch of a
\* statement that is no SHOW
FetchAll ==
    /\ q_pc = "fetch"
    /\ rows' = IF q_variant = "utils" \/ rows = Unbound
               THEN PyList(result_sets[q_set])
               ELSE PyList(rows.l \o result_sets[q_set])
    /\ q_pc' = IF IsShow(sql_query) THEN "nextset" ELSE "columns"
    /\ UNCHANGED <<q_set, conn, cursor, q_exc, q_outcome>>
    /\ QueryFrame

\* while cursor.nextset(): the cursor moves to the next result set, or
\* there is none and the loop ends
NextSet ==
    /\ q_pc = "nextset"
    /\ IF q_set < Len(result_sets)
       THEN /\ q_set' = q_set + 1
            /\ q_pc' = "fetch"
       ELSE /\ q_pc' = "columns"
            /\ UNCHANGED q_set
    /\ UNCHANGED <<conn, cursor, rows, q_exc, q_outcome>>
    /\ QueryFrame

\* every attribute, upper-cased, is a column
AttributesAreColumns ==
    \A i \in 1..Len(attributes.l) :
        Upper(attributes.l[i].s) \in DOMAIN ColIndex

\* lines 86-93: the columns and the check of the attributes against them
CheckColumns ==
    /\ q_pc = "columns"
    /\ IF AttributesAreColumns
       THEN /\ q_pc' = "build"
            /\ UNCHANGED <<q_exc, q_outcome>>
       ELSE Reject("RuntimeError")
    /\ UNCHANGED <<q_set, conn, cursor, rows>>
    /\ QueryFrame

\* BuildResources that keys every mapping by the column names of the
\* cursor instead of the attribute names of the caller
BuildResourcesByColumn(attrs, fetched) ==
    [i \in 1..Len(fetched) |->
        PyDict([k \in {Lower(Upper(attrs[j].s)) : j \in 1..Len(attrs)} |->
                  fetched[i][ColIndex[Upper(k)]]])]

\* lines 96-102: one mapping per row, keyed by the attribute names as the
\* caller spells them
BuildResources(attrs, fetched) ==
    [i \in 1..Len(fetched) |->
        PyDict([k \in {attrs[j].s : j \in 1..Len(attrs)} |->
                  fetched[i][ColIndex[Upper(k)]]])]

\* lines 96-104: `for row in rows` raises UnboundLocalError when no
\* assignment has bound rows
Build ==
    /\ q_pc = "build"
    /\ IF rows = Unbound
       THEN Throw("UnboundLocalError")
       ELSE /\ q_outcome' = Returned(PyList(BuildResources(attributes.l,
                                                           rows.l)))
            /\ q_pc' = "finally"
            /\ UNCHANGED q_exc
    /\ UNCHANGED <<q_set, conn, cursor, rows>>
    /\ QueryFrame

\* lines 106-114: the three except clauses log and return None; those of
\* snowflake_utils.py raise RuntimeError
QHandle ==
    /\ q_pc = "except"
    /\ q_outcome' = IF q_variant = "utils"
                    THEN Returned(PyNone)
                    ELSE Raised("RuntimeError", q_exc)
    /\ q_pc' = "finally"
    /\ UNCHANGED <<q_set, conn, cursor, rows, q_exc>>
    /\ QueryFrame

\* QFinally that closes the cursor and the connection of a call that
\* succeeded only
QFinallyOnSuccess ==
    /\ q_pc = "finally"
    /\ cursor' = IF cursor = "open" /\ q_exc = "none" THEN "closed" ELSE cursor
    /\ conn' = IF conn = "open" /\ q_exc = "none" THEN "closed" ELSE conn
    /\ q_pc' = "done"
    /\ UNCHANGED <<q_set, rows, q_exc, q_outcome>>
    /\ QueryFrame

\* lines 116-120: the finally clause closes the cursor and the connection
\* that the call has bound, and the call returns or raises
QFinally ==
    /\ q_pc = "finally"
    /\ cursor' = IF cursor = "open" THEN "closed" ELSE cursor
    /\ conn' = IF conn = "open" THEN "closed" ELSE conn
    /\ q_pc' = "done"
    /\ UNCHANGED <<q_set, rows, q_exc, q_outcome>>
    /\ QueryFrame

NextQuery ==
    \/ QValidate
    \/ LoadKey
    \/ Connect
    \/ OpenCursor
    \/ Execute
    \/ FetchAll
    \/ NextSet
    \/ CheckColumns
    \/ Build
    \/ QHandle
    \/ QFinally

\* the locals of a call of get_snowflake_resources before its first step
QueryLocals ==
    /\ q_set = 0
    /\ conn = "none"
    /\ cursor = "none"
    /\ rows = Unbound
    /\ q_exc = "none"
    /\ q_outcome = Pending

\* no call of get_snowflake_resources is running
QueryIdle ==
    /\ q_pc = "idle"
    /\ q_variant = "utils"
    /\ sql_query = PyNone
    /\ result_sets = <<>>
    /\ QueryLocals

\* the rows a result set may hold, in the order of Description
Rows ==
    {<<PyStr(V_wh1), PyStr(V_xs)>>, <<PyStr(V_wh2), PyStr(V_X_SMALL)>>}

\* what a statement produces: one result set, or two short ones
ResultSets ==
    {<<s>> : s \in SeqsUpTo(Rows, MaxRows)}
    \cup {<<s1, s2>> : s1, s2 \in SeqsUpTo(Rows, 1)}

Q_show == <<" ","s","h","o","w"," ","w">>

Q_select == <<"S","E","L","E","C","T">>

\* the attribute lists of a descriptor: with the key field, without it,
\* in upper case, with an attribute that is no column, and empty
Descriptors ==
    {AttributeList,
     PyList(<<PyStr(A_size)>>),
     PyList(<<PyStr(A_SIZE), PyStr(K_NAME)>>),
     PyList(<<PyStr(A_size), PyStr(A_comment)>>),
     PyList(<<>>)}

\* the declared states the result of the query is compared with
DeclaredStates ==
    {StateDoc(<<>>),
     StateDoc(<<Group(WarehouseTag, <<Wh1Small>>)>>),
     StateDoc(<<Group(WarehouseTag, <<Wh1Large, Wh2Small>>),
                Group(SnowflakePrefix \o S_user,
                      <<Record(PyStr(V_wh1), PyStr(V_wh2), PyStr(V_xs))>>)>>)}

\* a call of get_snowflake_resources, and the arguments that
\* process_account passes to compare_resources with its result
InitQuery ==
    /\ InitLocals
    /\ MainIdle
    /\ q_pc = "validate"
    /\ q_variant \in {"utils", "top"}
    /\ sql_query \in {PyStr(Q_show), PyStr(Q_select)}
    /\ result_sets \in ResultSets
    /\ QueryLocals
    /\ resource \in {PyStr(S_warehouse), PyStr(S_user)}
    /\ attributes \in Descriptors
    /\ synonyms = SynonymTable
    /\ tf_state \in DeclaredStates
    /\ sf_resources = PyNone

SpecQuery == InitQuery /\ [][NextQuery]_vars

\* a run of main
InitMain ==
    /\ InitLocals
    /\ QueryIdle
    /\ MainStart
    /\ send_consolidated_email \in BOOLEAN
    /\ resource = PyStr(S_warehouse)
    /\ attributes = AttributeList
    /\ synonyms = SynonymTable
    /\ tf_state = StateDoc(<<>>)
    /\ sf_resources = PyList(<<>>)

SpecMain == InitMain /\ [][NextMain]_vars

Init ==
    /\ InitLocals
    /\ MainIdle
    /\ QueryIdle
    /\ \/ InitWellFormed
       \/ InitAnyState
       \/ InitAnyObserved
       \/ InitAnyArgs
       \/ InitAttributeValues
       \/ InitKeyCase

Spec == Init /\ [][Next]_vars

---------------------------------------------------------------------------
(* Properties *)

Terminated == pc \in {"done", "raised"}

\* the call ends with what the function of the arguments gives
StepsAgreeWithFunction ==
    Terminated =>
        Seen(outcome) = CompareResources(tf_state, sf_resources, resource,
                                         attributes, synonyms)

IsPresence(rec) == "attribute" \notin DOMAIN rec
IsAttribute(rec) == "attribute" \in DOMAIN rec

AllKeys == (DOMAIN tf_res_map) \cup (DOMAIN sf_res_map)

\* the positions of drifts that hold a presence / an attribute record of a key
PresenceAt(key) ==
    {i \in 1..Len(drifts) : IsPresence(drifts[i]) /\ drifts[i].name = key}

AttributeAt(key) ==
    {i \in 1..Len(drifts) : IsAttribute(drifts[i]) /\ drifts[i].name = key}

OnlyObserved == (DOMAIN sf_res_map) \ (DOMAIN tf_res_map)
OnlyDeclared == (DOMAIN tf_res_map) \ (DOMAIN sf_res_map)
OnBothSides == (DOMAIN tf_res_map) \cap (DOMAIN sf_res_map)

\* C1: every record of the drift list names a key of the union of the two
\* key sets, and for every key of the union the list holds at most one
\* presence-drift record and never both a presence-drift and an
\* attribute-drift record; so each key has exactly one outcome: one presence
\* drift, one or more attribute drifts, or no record.
C1_OneOutcomePerKey ==
    /\ \A i \in 1..Len(drifts) : drifts[i].name \in AllKeys
    /\ \A key \in AllKeys :
         /\ Cardinality(PresenceAt(key)) <= 1
         /\ PresenceAt(key) = {} \/ AttributeAt(key) = {}

\* a finished call whose list holds a presence drift of one key and an
\* attribute drift of another
C1_Witness ==
    /\ pc = "done"
    /\ \E k1, k2 \in AllKeys :
         /\ Cardinality(PresenceAt(k1)) = 1
         /\ AttributeAt(k2) # {}

\* C2: when the call returns, every key of the observed map alone has
\* exactly one presence-drift record, with Snowflake true and Terraform
\* false; every key of the declared map alone has exactly one, with
\* Snowflake false and Terraform true; and in every presence-drift record
\* exactly one of the two flags is true.
C2_PresenceDriftPerSide ==
    pc = "done" =>
        /\ \A key \in OnlyObserved :
             /\ Cardinality(PresenceAt(key)) = 1
             /\ \A i \in PresenceAt(key) :
                  drifts[i].Snowflake = TRUE /\ drifts[i].Terraform = FALSE
        /\ \A key \in OnlyDeclared :
             /\ Cardinality(PresenceAt(key)) = 1
             /\ \A i \in PresenceAt(key) :
                  drifts[i].Snowflake = FALSE /\ drifts[i].Terraform = TRUE
        /\ \A i \in 1..Len(drifts) :
             IsPresence(drifts[i]) =>
                 (drifts[i].Snowflake = TRUE) # (drifts[i].Terraform = TRUE)

\* a finished call with a key of the observed side alone and a key of the
\* declared side alone
C2_Witness ==
    /\ pc = "done"
    /\ OnlyObserved # {}
    /\ OnlyDeclared # {}

\* the canonical form of an attribute of a record, from the arguments alone:
\* upper-cased string or "NULL", then mapped through the synonym table of
\* (resource, lower-cased attribute) when it has an entry
RawForm(rec, attr) ==
    IF attr \in DOMAIN rec.d /\ rec.d[attr] # PyNone
    THEN Upper(Str(rec.d[attr]))
    ELSE NullStr

CanonicalForm(rec, attr) ==
    LET raw == RawForm(rec, attr)
        tbl == IF /\ resource.s \in DOMAIN synonyms.d
                  /\ Lower(attr) \in DOMAIN synonyms.d[resource.s].d
               THEN synonyms.d[resource.s].d[Lower(attr)].d
               ELSE <<>>
    IN IF raw \in DOMAIN tbl THEN tbl[raw] ELSE PyStr(raw)

\* C3: when the call returns, for every key of both maps and every attribute
\* of the descriptor, the list holds an attribute-drift record of that key
\* and attribute iff the canonical forms of the two sides differ; a key
\* whose every attribute has equal canonical forms has no record at all.
C3_AttributeDriftIffCanonicalDiffer ==
    pc = "done" =>
        \A key \in OnBothSides :
            LET differs(a) == CanonicalForm(tf_res_map[key], a)
                                # CanonicalForm(sf_res_map[key], a)
                names == {attributes.l[j].s : j \in 1..Len(attributes.l)}
            IN /\ \A a \in names :
                    (\E i \in AttributeAt(key) : drifts[i].attribute = a)
                        <=> differs(a)
               /\ (\A a \in names : ~differs(a)) =>
                    \A i \in 1..Len(drifts) : drifts[i].name # key

\* a finished call with a key of both sides whose sizes are spelled
\* differently and are synonyms, so that no record is reported for them
C3_Witness ==
    /\ pc = "done"
    /\ \E key \in OnBothSides :
         /\ RawForm(tf_res_map[key], A_size) # RawForm(sf_res_map[key], A_size)
         /\ CanonicalForm(tf_res_map[key], A_size)
              = CanonicalForm(sf_res_map[key], A_size)
         /\ AttributeAt(key) = {}

\* C4: a call whose tf_state is a mapping without a `resources` entry ends
\* with an error and never returns a drift list, empty or not.
C4_MissingResourcesIsInvalid ==
    (Terminated /\ IsDict(tf_state) /\ ~HasKey(tf_state, K_resources)) =>
        outcome.kind = "raise"

MalformedGroup(g) ==
    ~IsDict(g) \/ ~HasKey(g, K_type) \/ ~HasKey(g, K_instances)

MalformedInstance(inst) == ~IsDict(inst) \/ ~HasKey(inst, K_attributes)

\* tf_state["resources"] is a list that holds a malformed group, or a group
\* whose instance list holds a malformed instance
HasMalformedElement(tf) ==
    /\ IsDict(tf)
    /\ HasKey(tf, K_resources)
    /\ IsList(Item(tf, K_resources))
    /\ \E g \in Range(Item(tf, K_resources).l) :
         \/ MalformedGroup(g)
         \/ /\ IsList(Item(g, K_instances))
            /\ \E inst \in Range(Item(g, K_instances).l) :
                 MalformedInstance(inst)

\* C5: a call whose tf_state["resources"] holds a malformed group or
\* instance ends with an error instead of a drift list computed from the
\* other elements.
C5_MalformedElementIsInvalid ==
    (Terminated /\ HasMalformedElement(tf_state)) =>
        outcome.kind = "raise"

\* C6: a call whose sf_resources is no list, or is a list with an element
\* that is no mapping, ends with an error and never returns a drift list.
C6_ObservedNotMappingsFails ==
    (/\ Terminated
     /\ \/ ~IsList(sf_resources)
        \/ \E elem \in Range(sf_resources.l) : ~IsDict(elem))
    => outcome.kind = "raise"

InvalidResource(r) == ~IsStr(r) \/ ~StripNonEmpty(r.s)

InvalidAttributes(attrs) ==
    \/ ~IsList(attrs)
    \/ attrs.l = <<>>
    \/ \E a \in Range(attrs.l) : ~IsStr(a) \/ ~StripNonEmpty(a.s)

\* C7: a call with an invalid resource or invalid attributes returns no
\* list and raises ValueError, a kind distinct from the RuntimeError of an
\* unexpected failure during the comparison.
C7_InvalidArgumentRaisesValueError ==
    (Terminated /\ (InvalidResource(resource) \/ InvalidAttributes(attributes)))
    => (outcome.kind = "raise" /\ outcome.type = "ValueError")

WellFormedState(tf) ==
    /\ IsDict(tf)
    /\ HasKey(tf, K_resources)
    /\ IsList(Item(tf, K_resources))
    /\ \A g \in Range(Item(tf, K_resources).l) :
         /\ ~MalformedGroup(g)
         /\ IsList(Item(g, K_instances))
         /\ \A inst \in Range(Item(g, K_instances).l) :
              ~MalformedInstance(inst)

\* valid arguments, a well-formed state document without an instance of the
\* requested type, and an empty observed list
ValidEmptyCall ==
    /\ ValidateArgs(tf_state, sf_resources, resource, attributes, synonyms)
         = NoExc
    /\ WellFormedState(tf_state)
    /\ \A g \in Range(Item(tf_state, K_resources).l) :
         Item(g, K_type) = PyStr(TfResourceType(resource)) =>
             Item(g, K_instances).l = <<>>
    /\ sf_resources.l = <<>>

\* C8: a valid call with no declared resource of the type and an empty
\* observed list returns the empty list; a call in which an exception was
\* raised ends with an error and returns no list, empty or not.
C8_EmptyResultIsNotFailure ==
    Terminated =>
        /\ ValidEmptyCall => outcome = Returned(<<>>)
        /\ exc # NoExc => (outcome.kind = "raise" /\ pc = "raised")
        /\ outcome.kind = "return" => exc = NoExc

\* a valid empty call that has returned
C8_Witness ==
    /\ pc = "done"
    /\ ValidEmptyCall
    /\ outcome = Returned(<<>>)

\* the values of field f in the records of a list that have it
KeysBy(recs, f) ==
    {Item(rec, f) : rec \in {x \in Range(recs) : IsDict(x) /\ HasKey(x, f)}}

\* both maps are keyed by field f of their records, and every drift record
\* is named by such a key
MatchedBy(f) ==
    /\ DOMAIN tf_res_map = KeysBy(tf_resources, f)
    /\ DOMAIN sf_res_map = KeysBy(sf_resources.l, f)
    /\ \A k \in DOMAIN tf_res_map :
         HasKey(tf_res_map[k], f) /\ Item(tf_res_map[k], f) = k
    /\ \A k \in DOMAIN sf_res_map :
         HasKey(sf_res_map[k], f) /\ Item(sf_res_map[k], f) = k
    /\ \A i \in 1..Len(drifts) :
         drifts[i].name \in KeysBy(tf_resources, f) \cup KeysBy(sf_resources.l, f)

\* C9 as stated: the records are matched by login_name exactly when
\* resource is the string "user", and by name for every other resource.
C9_KeyFieldByExactType ==
    pc = "done" =>
        MatchedBy(IF resource.s = S_user THEN K_login_name ELSE K_name)

\* C9: the records are matched by login_name exactly when resource,
\* lower-cased, is "user", and by name for every other resource; the name of
\* every drift record is the value of that field.
C9_KeyFieldByLowerCasedType ==
    pc = "done" =>
        MatchedBy(IF Lower(resource.s) = S_user THEN K_login_name ELSE K_name)

\* a finished call for resource "User" that matched two records of equal
\* login_name and different name, and reported a drift
C9_Witness ==
    /\ pc = "done"
    /\ resource.s = S_User
    /\ drifts # <<>>
    /\ \E k \in OnBothSides :
         Get(tf_res_map[k], K_name) # Get(sf_res_map[k], K_name)

\* a record that is a mapping without the key field
Keyless(rec, key_field) == IsDict(rec) /\ ~HasKey(rec, key_field)

KeylessInstance(inst, key_field) ==
    /\ IsDict(inst)
    /\ HasKey(inst, K_attributes)
    /\ Keyless(Item(inst, K_attributes), key_field)

\* the list without its keyless records
ObservedWithoutKeyless(sf, key_field) ==
    LET keep(rec) == ~Keyless(rec, key_field) IN PyList(SelectSeq(sf.l, keep))

\* the state document without the instances whose record is keyless
StateWithoutKeyless(tf, key_field) ==
    LET keep(inst) == ~KeylessInstance(inst, key_field)
        strip(g) ==
            IF IsDict(g) /\ HasKey(g, K_instances) /\ IsList(Item(g, K_instances))
            THEN PyDict([g.d EXCEPT ![K_instances] = PyList(SelectSeq(@.l, keep))])
            ELSE g
    IN IF IsDict(tf) /\ HasKey(tf, K_resources) /\ IsList(Item(tf, K_resources))
       THEN PyDict([tf.d EXCEPT ![K_resources] =
                      PyList([i \in 1..Len(@.l) |-> strip(@.l[i])])])
       ELSE tf

\* some declared instance or observed record of the call is keyless
SomeKeyless ==
    /\ IsStr(resource)
    /\ IsList(sf_resources)
    /\ \/ \E rec \in Range(sf_resources.l) : Keyless(rec, KeyField(resource))
       \/ StateWithoutKeyless(tf_state, KeyField(resource)) # tf_state

\* C10: a call with declared or observed records that lack the key field
\* ends as the call without those records ends: with the same drift
\* records, or with the same error when the call fails for another reason;
\* so a keyless record yields no drift record, matches nothing and makes no
\* call fail.
C10_KeylessRecordsAreDropped ==
    (Terminated /\ SomeKeyless) =>
        Seen(outcome) =
            CompareResources(StateWithoutKeyless(tf_state, KeyField(resource)),
                             ObservedWithoutKeyless(sf_resources,
                                                    KeyField(resource)),
                             resource, attributes, synonyms)

\* a finished call with a keyless record on either side and a drift found
C10_Witness ==
    /\ pc = "done"
    /\ \E rec \in Range(sf_resources.l) : Keyless(rec, KeyField(resource))
    /\ \E rec \in Range(tf_resources) : Keyless(rec, KeyField(resource))
    /\ drifts # <<>>

\* the positions of a list whose record has the value key in field f
PositionsOf(recs, f, key) ==
    {i \in 1..Len(recs) :
        IsDict(recs[i]) /\ HasKey(recs[i], f) /\ Item(recs[i], f) = key}

\* C11: when the call returns, the name of every drift record is the key of
\* at most one declared record and of at most one observed record of the
\* type, and of at least one of them: it identifies exactly one resource.
C11_NameIdentifiesOneResource ==
    pc = "done" =>
        \A i \in 1..Len(drifts) :
            LET f == KeyField(resource)
                declared == PositionsOf(tf_resources, f, drifts[i].name)
                observed == PositionsOf(sf_resources.l, f, drifts[i].name)
            IN /\ Cardinality(declared) <= 1
               /\ Cardinality(observed) <= 1
               /\ declared \cup observed # {}

\* the attribute of a record is missing or None
MissingOrNull(rec, attr) == ~HasKey(rec, attr) \/ Item(rec, attr) = PyNone

\* C12: when the call returns, for a key of both maps an attribute that is
\* missing or None on both sides has no attribute-drift record, and every
\* attribute-drift record reports "NULL" for a side on which the attribute
\* is missing or None.
C12_MissingComparesAsNull ==
    pc = "done" =>
        \A key \in OnBothSides :
            LET tf_res == tf_res_map[key]
                sf_res == sf_res_map[key]
            IN /\ \A j \in 1..Len(attributes.l) :
                    LET a == attributes.l[j].s IN
                    (MissingOrNull(tf_res, a) /\ MissingOrNull(sf_res, a)) =>
                        ~\E i \in AttributeAt(key) : drifts[i].attribute = a
               /\ \A i \in AttributeAt(key) :
                    /\ MissingOrNull(tf_res, drifts[i].attribute) =>
                         drifts[i].Terraform = NullStr
                    /\ MissingOrNull(sf_res, drifts[i].attribute) =>
                         drifts[i].Snowflake = NullStr

\* a finished call that reported a drift between a missing attribute and a
\* value
C12_Witness ==
    /\ pc = "done"
    /\ \E key \in OnBothSides : \E i \in AttributeAt(key) :
         /\ MissingOrNull(sf_res_map[key], drifts[i].attribute)
         /\ ~MissingOrNull(tf_res_map[key], drifts[i].attribute)
         /\ drifts[i].Snowflake = NullStr

\* the synonym table of (resource, lower-cased attribute) in the arguments,
\* empty when the resource or the attribute has none
TableOf(attr) ==
    IF /\ resource.s \in DOMAIN synonyms.d
       /\ Lower(attr) \in DOMAIN synonyms.d[resource.s].d
    THEN synonyms.d[resource.s].d[Lower(attr)].d
    ELSE <<>>

\* the table maps every value it holds to itself (so does the empty table)
IdentityTable(tbl) == \A v \in DOMAIN tbl : tbl[v] = PyStr(v)

\* an attribute-drift record of the key and attribute is in the list
DriftReported(key, attr) ==
    \E i \in AttributeAt(key) : drifts[i].attribute = attr

\* C13: when the call returns, for an attribute whose synonym table is
\* absent, empty or the identity, a key of both maps has an attribute-drift
\* record iff the upper-cased strings of the two values differ; values that
\* differ in letter case alone produce none.
C13_IdentityTableIsUpperCaseEquality ==
    pc = "done" =>
        \A key \in OnBothSides : \A j \in 1..Len(attributes.l) :
            LET a == attributes.l[j].s IN
            IdentityTable(TableOf(a)) =>
                (DriftReported(key, a) <=>
                    RawForm(tf_res_map[key], a) # RawForm(sf_res_map[key], a))

\* a finished call under an identity table with entries, for two values that
\* differ in letter case alone
C13_Witness ==
    /\ pc = "done"
    /\ \E key \in OnBothSides : \E j \in 1..Len(attributes.l) :
         LET a == attributes.l[j].s IN
         /\ TableOf(a) # <<>>
         /\ IdentityTable(TableOf(a))
         /\ ~MissingOrNull(tf_res_map[key], a)
         /\ ~MissingOrNull(sf_res_map[key], a)
         /\ Item(tf_res_map[key], a) # Item(sf_res_map[key], a)
         /\ ~DriftReported(key, a)

\* the table maps the upper-cased value of record v_res to the string that
\* record c_res holds for the attribute
MapsOnto(v_res, c_res, attr) ==
    /\ RawForm(v_res, attr) \in DOMAIN TableOf(attr)
    /\ ~MissingOrNull(c_res, attr)
    /\ IsStr(Item(c_res, attr))
    /\ TableOf(attr)[RawForm(v_res, attr)] = Item(c_res, attr)

\* the table sends the string that record c_res holds, upper-cased, to that
\* string: it is upper-case and has no entry, or its entry is the string
KeptByTable(c_res, attr) ==
    LET c == Item(c_res, attr)
        tbl == TableOf(attr)
    IN IF Upper(c.s) \in DOMAIN tbl THEN tbl[Upper(c.s)] = c
       ELSE Upper(c.s) = c.s

\* C14 as stated: when the call returns, a key of both maps with value V on
\* one side and C on the other, where the table maps V upper-cased to C, has
\* no attribute-drift record for the attribute, whatever the table.
C14_SynonymPairNeverDrifts ==
    pc = "done" =>
        \A key \in OnBothSides : \A j \in 1..Len(attributes.l) :
            LET a == attributes.l[j].s
                tf_res == tf_res_map[key]
                sf_res == sf_res_map[key]
            IN (MapsOnto(tf_res, sf_res, a) \/ MapsOnto(sf_res, tf_res, a))
                   => ~DriftReported(key, a)

\* C14: the same, provided the table sends C, upper-cased, to C.
C14_KeptSynonymPairNeverDrifts ==
    pc = "done" =>
        \A key \in OnBothSides : \A j \in 1..Len(attributes.l) :
            LET a == attributes.l[j].s
                tf_res == tf_res_map[key]
                sf_res == sf_res_map[key]
            IN /\ (MapsOnto(tf_res, sf_res, a) /\ KeptByTable(sf_res, a))
                     => ~DriftReported(key, a)
               /\ (MapsOnto(sf_res, tf_res, a) /\ KeptByTable(tf_res, a))
                     => ~DriftReported(key, a)

\* a finished call with "xs" on one side and its synonym, a different
\* string that the table keeps, on the other
C14_Witness ==
    /\ pc = "done"
    /\ \E key \in OnBothSides : \E j \in 1..Len(attributes.l) :
         LET a == attributes.l[j].s IN
         /\ MapsOnto(tf_res_map[key], sf_res_map[key], a)
         /\ KeptByTable(sf_res_map[key], a)
         /\ RawForm(tf_res_map[key], a) # RawForm(sf_res_map[key], a)
         /\ ~DriftReported(key, a)

\* C15: when the call returns, every attribute-drift record reports for
\* either side the upper-cased string of that side's value, or "NULL",
\* whatever the synonym table maps it to.
C15_ReportedValuesAreRaw ==
    pc = "done" =>
        \A key \in OnBothSides : \A i \in AttributeAt(key) :
            /\ drifts[i].Terraform = RawForm(tf_res_map[key], drifts[i].attribute)
            /\ drifts[i].Snowflake = RawForm(sf_res_map[key], drifts[i].attribute)

\* a finished call that reported a drift for a value the table maps to
\* another string
C15_Witness ==
    /\ pc = "done"
    /\ \E key \in OnBothSides : \E i \in AttributeAt(key) :
         LET a == drifts[i].attribute IN
         /\ CanonicalForm(tf_res_map[key], a) # PyStr(RawForm(tf_res_map[key], a))
         /\ drifts[i].Terraform = RawForm(tf_res_map[key], a)

\* the names of the attributes list
Named == {attributes.l[j].s : j \in 1..Len(attributes.l)}

\* a record restricted to the fields of the given names
Only(rec, names) ==
    IF IsDict(rec)
    THEN PyDict([k \in (DOMAIN rec.d) \cap names |-> rec.d[k]])
    ELSE rec

OnlyInInstance(inst, names) ==
    IF IsDict(inst) /\ HasKey(inst, K_attributes)
    THEN PyDict([k \in DOMAIN inst.d |->
                   IF k = K_attributes THEN Only(inst.d[k], names)
                   ELSE inst.d[k]])
    ELSE inst

OnlyInGroup(g, names) ==
    IF IsDict(g) /\ HasKey(g, K_instances) /\ IsList(Item(g, K_instances))
    THEN PyDict([k \in DOMAIN g.d |->
                   IF k = K_instances
                   THEN PyList([i \in 1..Len(g.d[k].l) |->
                                  OnlyInInstance(g.d[k].l[i], names)])
                   ELSE g.d[k]])
    ELSE g

\* the state document with every attribute mapping restricted to the names
OnlyInState(tf, names) ==
    IF IsDict(tf) /\ HasKey(tf, K_resources) /\ IsList(Item(tf, K_resources))
    THEN PyDict([k \in DOMAIN tf.d |->
                   IF k = K_resources
                   THEN PyList([i \in 1..Len(tf.d[k].l) |->
                                  OnlyInGroup(tf.d[k].l[i], names)])
                   ELSE tf.d[k]])
    ELSE tf

\* the observed list with every mapping restricted to the names
OnlyInList(sf, names) ==
    IF IsList(sf)
    THEN PyList([i \in 1..Len(sf.l) |-> Only(sf.l[i], names)])
    ELSE sf

\* C16 as stated: a call that returns gives the records of the call on the
\* same inputs with every attribute outside the attributes list removed from
\* both sides, so that inputs which differ in such attributes alone give the
\* same records.
C16_OtherAttributesNeverMatter ==
    pc = "done" =>
        CompareResources(OnlyInState(tf_state, Named),
                         OnlyInList(sf_resources, Named),
                         resource, attributes, synonyms) = Seen(outcome)

\* C16: a call that returns gives the records of the call on the same inputs
\* with every attribute removed that is neither in the attributes list nor
\* the key field of the resource type.
C16_OtherAttributesButKeyNeverMatter ==
    pc = "done" =>
        LET kept == Named \cup {KeyField(resource)} IN
        CompareResources(OnlyInState(tf_state, kept),
                         OnlyInList(sf_resources, kept),
                         resource, attributes, synonyms) = Seen(outcome)

\* a finished call with drift, for records that hold a field which is
\* neither compared nor the key
C16_Witness ==
    /\ pc = "done"
    /\ drifts # <<>>
    /\ \E rec \in Range(tf_resources) \cup Range(sf_resources.l) :
         /\ IsDict(rec)
         /\ ~(DOMAIN rec.d \subseteq Named \cup {KeyField(resource)})

\* a group that carries a type other than the tag
OtherType(g, tag) ==
    IsDict(g) /\ HasKey(g, K_type) /\ Item(g, K_type) # PyStr(tag)

\* the state document without its groups of other types
WithoutOtherTypes(tf, tag) ==
    LET Keep(g) == ~OtherType(g, tag) IN
    IF IsDict(tf) /\ HasKey(tf, K_resources) /\ IsList(Item(tf, K_resources))
    THEN PyDict([k \in DOMAIN tf.d |->
                   IF k = K_resources
                   THEN PyList(SelectSeq(tf.d[k].l, Keep))
                   ELSE tf.d[k]])
    ELSE tf

\* the positions of the groups of the tag in the state document
MatchingGroups ==
    LET groups == Iter(TfGroups(tf_state)) IN
    {i \in 1..Len(groups) :
        /\ IsDict(groups[i])
        /\ HasKey(groups[i], K_type)
        /\ HasKey(groups[i], K_instances)
        /\ Item(groups[i], K_type) = PyStr(TfResourceType(resource))}

\* the attribute mappings of the instances of the groups of the tag
MatchingRecords ==
    LET groups == Iter(TfGroups(tf_state)) IN
    UNION {Range(InstanceAttributes(Iter(Item(groups[i], K_instances)))) :
             i \in MatchingGroups}

\* C17: a call ends as the call on the state document without its groups of
\* other types ends; when it returns, every drift record carries the derived
\* tag as its resource, and every keyed attribute mapping of every instance
\* of every group of the tag has its key in tf_res_map.
C17_OnlyGroupsOfTheTagContribute ==
    /\ (Terminated /\ IsStr(resource)) =>
           CompareResources(WithoutOtherTypes(tf_state, TfResourceType(resource)),
                            sf_resources, resource, attributes, synonyms)
               = Seen(outcome)
    /\ pc = "done" =>
           /\ \A i \in 1..Len(drifts) :
                  drifts[i].resource = TfResourceType(resource)
           /\ \A rec \in MatchingRecords :
                  HasKey(rec, KeyField(resource)) =>
                      Item(rec, KeyField(resource)) \in DOMAIN tf_res_map

\* a finished call with drift, for a state document that holds a group of
\* another type with a record and a group of the tag with a record
C17_Witness ==
    /\ pc = "done"
    /\ drifts # <<>>
    /\ MatchingRecords # {}
    /\ \E g \in Range(Iter(TfGroups(tf_state))) :
         /\ OtherType(g, TfResourceType(resource))
         /\ HasKey(g, K_instances)
         /\ IsList(Item(g, K_instances))
         /\ InstanceAttributes(Item(g, K_instances).l) # <<>>

\* the record lacks the field of the name and holds one whose name differs
\* from it in letter case alone
HasOtherCase(rec, name) ==
    /\ ~HasKey(rec, name)
    /\ \E k \in DOMAIN rec.d : Lower(k) = Lower(name)

\* the record with that field under the name
Respelled(rec, name) ==
    Dict1(name, rec.d[CHOOSE k \in DOMAIN rec.d : Lower(k) = Lower(name)])

\* C18: when the call returns, an observed mapping that holds an
\* attribute of the list under a name of another letter case is compared by
\* the value of that field, and one that holds the key field under such a
\* name is in sf_res_map under its value.
C18_ObservedNamesAnyCase ==
    pc = "done" =>
        /\ \A key \in OnBothSides : \A a \in Named :
               HasOtherCase(sf_res_map[key], a) =>
                   (DriftReported(key, a) <=>
                        CanonicalForm(tf_res_map[key], a)
                            # CanonicalForm(Respelled(sf_res_map[key], a), a))
        /\ \A i \in 1..Len(sf_resources.l) :
               LET rec == sf_resources.l[i]
                   f == KeyField(resource)
               IN (IsDict(rec) /\ HasOtherCase(rec, f)) =>
                      Item(Respelled(rec, f), f) \in DOMAIN sf_res_map

\* C19: no step of a call changes tf_state, sf_resources, resource,
\* attributes or synonyms, and a call ends with the outcome that its
\* arguments determine, whatever the order in which the keys are visited.
C19_ArgumentsUnchangedOutcomeDetermined ==
    [][/\ args' = args
       /\ Terminated' =>
              Seen(outcome') = CompareResources(tf_state', sf_resources',
                                                resource', attributes',
                                                synonyms')]_vars

\* a finished call that visited two keys and reported two records
C19_Witness ==
    /\ pc = "done"
    /\ Cardinality(AllKeys) >= 2
    /\ Len(drifts) >= 2

PresenceOf(recs) == {rec \in recs : IsPresence(rec)}

Flipped(rec) ==
    PresenceDrift(rec.resource, rec.name, rec.Terraform, rec.Snowflake)

\* the call with the observed records as the instances of one declared
\* group of the tag and the declared records as the observed list
SwappedCall ==
    CompareResources(StateDoc(<<Group(TfResourceType(resource),
                                      sf_resources.l)>>),
                     PyList(tf_resources), resource, attributes, synonyms)

\* C20: when the call returns, the call with the two sides exchanged returns
\* too, its presence-drift records are those of the call with the two flags
\* exchanged, and the keys with presence drift are the same.
C20_SwapFlipsPresence ==
    pc = "done" =>
        LET swapped == SwappedCall IN
        /\ swapped.kind = "return"
        /\ PresenceOf(swapped.records)
               = {Flipped(rec) : rec \in PresenceOf(Range(drifts))}
        /\ {rec.name : rec \in PresenceOf(swapped.records)}
               = {rec.name : rec \in PresenceOf(Range(drifts))}

\* a finished call with a key on the declared side only and another on the
\* observed side only
C20_Witness ==
    /\ pc = "done"
    /\ \E i, j \in 1..Len(drifts) :
         /\ IsPresence(drifts[i]) /\ drifts[i].Snowflake = TRUE
         /\ IsPresence(drifts[j]) /\ drifts[j].Terraform = TRUE

---------------------------------------------------------------------------
(* Claims about main and process_account, checked under SpecMain *)

\* the accounts whose threads were submitted
Submitted == DOMAIN acct_pc

\* C21: accounts that run in parallel do not see each other's data: the
\* declared state an account compares is the one it downloaded itself (so
\* it never fails to parse it, as it never does when it runs alone), the
\* file its summary names holds its own output, and its drift email carries
\* its own output.
C21_AccountsIsolated ==
    /\ \A a \in Submitted :
         /\ acct_exc[a] # "state file"
         /\ acct_tf_state[a] \in {Missing, a}
         /\ drift_summary[a].output_file # ""
                => output_file[drift_summary[a].output_file] = a
    /\ \A i \in 1..Len(emails) :
         emails[i].kind = "drift" => emails[i].attached = emails[i].account

\* main has ended, by a return, by falling off its end or by an exception
\* that nothing handles
MainEnded == main_pc \in {"exit", "crashed"}

Sent(kind) == \E i \in 1..Len(emails) : emails[i].kind = kind

\* C22: a run of main that recorded a failure has sent the failure-summary
\* email when it ends, if the first configured account has a sender and
\* recipients.
C22_FailuresAlwaysMailed ==
    (MainEnded /\ failures # {} /\ FallbackAddress) => Sent("failure")

\* main is past the loop over the futures of a pool it has filled
PoolLeft ==
    /\ main_pc \in {"summary", "exit", "crashed"}
    /\ IsList(account_config)
    /\ Submitted = Accounts

\* C23: when main has left the pool, it has collected for every configured
\* account either the pair the account returned, with the account's
\* failures merged into its own, or one recorded failure for the exception
\* the account raised; no account is left out because another one failed.
C23_EveryAccountCollected ==
    PoolLeft =>
        \A a \in Accounts :
            \/ /\ collected[a] = "pair"
               /\ acct_pc[a] = "returned"
               /\ account_failures[a] \subseteq failures
            \/ /\ collected[a] = "failure"
               /\ acct_pc[a] = "raised"
               /\ Failure(a, "exception", "") \in failures

\* main has ended after one account raised and another returned its pair
C23_Witness ==
    /\ main_pc = "exit"
    /\ \E a, b \in Submitted :
         /\ collected[a] = "failure"
         /\ collected[b] = "pair"
         /\ acct_pc[b] = "returned"

\* C24: a query or a comparison of one resource type that failed is in the
\* failure list of the account, and the account goes on with the remaining
\* resource types instead of ending.
C24_ResourceFailureRecorded ==
    \A a \in Submitted :
        /\ sf_result[a] = "None" =>
               Failure(a, "query", resource_config[res_idx[a] - 1])
                   \in account_failures[a]
        /\ acct_exc[a] = "compare" =>
               /\ acct_pc[a] # "raised"
               /\ Failure(a, "compare", resource_config[res_idx[a]])
                      \in account_failures[a]

\* the accounts that reported a total of drifts above zero to main
Reported ==
    {a \in Submitted : collected[a] = "pair"
                       /\ drift_summary[a].total_drifts > 0}

DriftMailed(a) ==
    \E i \in 1..Len(emails) :
        emails[i].kind = "drift" /\ emails[i].account = a

\* with the flag: no drift email of an account, at most one consolidated
\* email, none before every account was collected, and once main is past
\* the pool one was sent exactly if an account reported drift and the
\* proviso holds; without the flag: no consolidated email, and an account
\* that has ended has sent its drift email exactly if its output holds a
\* drift record and its file was written
EmailsFollowTheFlag(proviso) ==
    IF send_consolidated_email
    THEN /\ ~Sent("drift")
         /\ Cardinality({i \in 1..Len(emails) :
                             emails[i].kind = "consolidated"}) <= 1
         /\ Sent("consolidated") => \A a \in Submitted : collected[a] # "no"
         /\ main_pc \in {"summary", "exit", "crashed"} =>
                (Sent("consolidated") <=> (Reported # {} /\ proviso))
    ELSE /\ ~Sent("consolidated")
         /\ \A a \in Submitted :
                acct_pc[a] \in {"returned", "raised"} =>
                    (DriftMailed(a) <=>
                         /\ has_drifts(a)
                         /\ drift_summary[a].output_file # "")

---------------------------------------------------------------------------
(* Claims about get_snowflake_resources, checked under SpecQuery *)

\* the rows of every result set of the statement, in order
RECURSIVE Flatten(_)
Flatten(sets) ==
    IF sets = <<>> THEN <<>> ELSE Head(sets) \o Flatten(Tail(sets))

\* the call got as far as a successful cursor.execute
Executed == q_set >= 1

\* C26: a SHOW statement that was executed, asked for attributes that are
\* all columns, returns one mapping per row of its result, the rows of the
\* first result set included, whether the cursor has one result set or more.
C26_ShowReturnsEveryRow ==
    (q_pc = "done" /\ IsShow(sql_query) /\ Executed /\ AttributesAreColumns)
        => q_outcome = Returned(PyList(BuildResources(attributes.l,
                                                      Flatten(result_sets))))

\* C27: when get_snowflake_resources has returned or raised, no connection
\* and no cursor it opened is still open.
C27_EverythingClosed ==
    q_pc = "done" => (conn # "open" /\ cursor # "open")

\* a call that opened a connection and a cursor and then failed, and has
\* closed both
C27_Witness ==
    /\ q_pc = "done"
    /\ q_exc # "none"
    /\ conn = "closed"
    /\ cursor = "closed"

\* the call returned a list of observed records
ReturnedList == q_pc = "done" /\ q_outcome.kind = "return" /\ IsList(q_outcome.value)

\* the identity keys of the declared records of the resource type
DeclaredKeys ==
    LET recs == ExtractAll(Iter(TfGroups(tf_state)),
                           TfResourceType(resource)).recs
    IN {Item(recs[i], KeyField(resource)) :
            i \in {j \in 1..Len(recs) : HasKey(recs[j], KeyField(resource))}}

\* C28: the observed records that get_snowflake_resources returns have
\* exactly the attribute names of the descriptor as their keys, spelled as
\* the descriptor spells them; when the key field of the resource type is
\* not among them, compare_resources on these records returns one
\* Terraform-only presence record for every declared key and nothing else.
C28_ObservedKeyedAsDescriptor ==
    ReturnedList =>
        /\ \A i \in 1..Len(q_outcome.value.l) :
               DOMAIN q_outcome.value.l[i].d = Named
        /\ KeyField(resource) \notin Named =>
               CompareResources(tf_state, q_outcome.value, resource,
                                attributes, synonyms)
                   = [kind |-> "return",
                      records |->
                          {PresenceDrift(TfResourceType(resource), k,
                                         FALSE, TRUE) : k \in DeclaredKeys}]

\* a call that returned observed records under a descriptor in upper case,
\* for a declared state that holds keyed records of the type
C28_Witness ==
    /\ ReturnedList
    /\ q_outcome.value.l # <<>>
    /\ attributes.l # <<>>
    /\ \A n \in Named : n = Upper(n)
    /\ DeclaredKeys # {}

---------------------------------------------------------------------------
(* compare_resources of detect.py, the variant without validation, as a   *)
(* function of arguments that pass the checks of the validating variant:  *)
(* tf_state a dict, sf_resources a list, resource and the attributes      *)
(* strings, synonyms a dict.                                              *)

\* [instance["attributes"] for instance in res["instances"]]
RECURSIVE DetectInstanceAttributes(_)
DetectInstanceAttributes(insts) ==
    IF insts = <<>> THEN [exc |-> NoExc, recs |-> <<>>]
    ELSE LET instance == Head(insts) IN
         IF ~IsDict(instance) THEN [exc |-> Raise("TypeError"), recs |-> <<>>]
         ELSE IF ~HasKey(instance, K_attributes)
         THEN [exc |-> Raise("KeyError"), recs |-> <<>>]
         ELSE LET rest == DetectInstanceAttributes(Tail(insts)) IN
              [exc |-> rest.exc,
               recs |-> <<Item(instance, K_attributes)>> \o rest.recs]

\* one iteration of the loop of lines 280-282: res["type"] and
\* res["instances"] are subscripted without a test
DetectExtractGroup(res, tag) ==
    IF ~IsDict(res) THEN [exc |-> Raise("TypeError"), recs |-> <<>>]
    ELSE IF ~HasKey(res, K_type) THEN [exc |-> Raise("KeyError"), recs |-> <<>>]
    ELSE IF Item(res, K_type) # PyStr(tag) THEN [exc |-> NoExc, recs |-> <<>>]
    ELSE IF ~HasKey(res, K_instances)
    THEN [exc |-> Raise("KeyError"), recs |-> <<>>]
    ELSE IF ~Iterable(Item(res, K_instances))
    THEN [exc |-> Raise("TypeError"), recs |-> <<>>]
    ELSE DetectInstanceAttributes(Iter(Item(res, K_instances)))

RECURSIVE DetectExtractAll(_, _)
DetectExtractAll(groups, tag) ==
    IF groups = <<>> THEN [exc |-> NoExc, recs |-> <<>>]
    ELSE LET step == DetectExtractGroup(Head(groups), tag) IN
         IF step.exc # NoExc THEN step
         ELSE LET rest == DetectExtractAll(Tail(groups), tag) IN
              [exc |-> rest.exc, recs |-> step.recs \o rest.recs]

\* DetectKeyField that takes "name" for every resource type
DetectKeyFieldAlwaysName(r) == K_name

\* lines 285-290: "login_name" for snowflake_user, "name" otherwise
DetectKeyField(r) ==
    IF TfResourceType(r) = SnowflakeUser THEN K_login_name ELSE K_name

\* one element of {res["name"]: res for res in ...}: no filter, so a record
\* without the key field raises KeyError
DetectMapPut(acc, res, key_field) ==
    IF acc.exc # NoExc THEN acc
    ELSE IF ~IsDict(res) THEN [acc EXCEPT !.exc = Raise("TypeError")]
    ELSE IF ~HasKey(res, key_field) THEN [acc EXCEPT !.exc = Raise("KeyError")]
    ELSE IF ~Hashable(Item(res, key_field))
    THEN [acc EXCEPT !.exc = Raise("TypeError")]
    ELSE LET key == Item(res, key_field) IN
         [acc EXCEPT !.map = [k \in (DOMAIN acc.map) \cup {key} |->
                                IF k = key THEN res ELSE acc.map[k]]]

RECURSIVE DetectBuildMapFrom(_, _, _)
DetectBuildMapFrom(acc, recs, key_field) ==
    IF recs = <<>> THEN acc
    ELSE DetectBuildMapFrom(DetectMapPut(acc, Head(recs), key_field),
                            Tail(recs), key_field)

DetectBuildMap(recs, key_field) ==
    DetectBuildMapFrom([exc |-> NoExc, map |-> <<>>], recs, key_field)

\* lines 271-338: no try statement, so an exception leaves the function as
\* it is; the loop over the keys, lines 296-336, is that of the validating
\* variant line by line
DetectCompareResources(tf, sf, r, attrs, syn) ==
    CASE ValidateArgs(tf, sf, r, attrs, syn) = NoExc ->
        IF ~Iterable(TfGroups(tf)) THEN Raised("TypeError", "")
        ELSE
        LET ext == DetectExtractAll(Iter(TfGroups(tf)), TfResourceType(r)) IN
        IF ext.exc # NoExc THEN Raised(ext.exc.type, "")
        ELSE
        LET tfm == DetectBuildMap(ext.recs, DetectKeyField(r)) IN
        IF tfm.exc # NoExc THEN Raised(tfm.exc.type, "")
        ELSE
        LET sfm == DetectBuildMap(Iter(sf), DetectKeyField(r)) IN
        IF sfm.exc # NoExc THEN Raised(sfm.exc.type, "")
        ELSE
        LET keys == (DOMAIN tfm.map) \cup (DOMAIN sfm.map)
            body(k) == DriftsForKey(k, tfm.map, sfm.map, r, attrs, syn)
        IN
        IF \E k \in keys : body(k).exc # NoExc
        THEN Raised(body(CHOOSE k \in keys : body(k).exc # NoExc).exc.type, "")
        ELSE [kind |-> "return",
              records |-> UNION {Range(body(k).recs) : k \in keys}]

---------------------------------------------------------------------------
(* Claims about the two variants and about the identity keys *)

\* every group of the state document is a dict with a type and a list of
\* instances, and every instance a dict with attributes
WellFormedGroups ==
    /\ IsList(TfGroups(tf_state))
    /\ \A i \in 1..Len(TfGroups(tf_state).l) :
         LET res == TfGroups(tf_state).l[i] IN
         /\ IsDict(res) /\ HasKey(res, K_type) /\ HasKey(res, K_instances)
         /\ IsList(Item(res, K_instances))
         /\ \A j \in 1..Len(Item(res, K_instances).l) :
              LET instance == Item(res, K_instances).l[j] IN
              IsDict(instance) /\ HasKey(instance, K_attributes)

\* every record of the sequence is a dict with the key field
AllKeyed(recs) ==
    \A i \in 1..Len(recs) :
        IsDict(recs[i]) /\ HasKey(recs[i], KeyField(resource))

\* the arguments are valid, the state document is well formed and every
\* declared record of the type and every observed record has its key
WellFormedKeyed ==
    /\ ValidateArgs(tf_state, sf_resources, resource, attributes, synonyms)
           = NoExc
    /\ WellFormedGroups
    /\ AllKeyed(ExtractAll(TfGroups(tf_state).l,
                           TfResourceType(resource)).recs)
    /\ AllKeyed(sf_resources.l)

\* C29: on valid arguments with a well-formed state document and keyed
\* records, the validating compare_resources returns exactly when that of
\* detect.py returns, and then both return the same set of drift records.
C29_VariantsAgreeOnWellFormed ==
    (pc \in {"done", "raised"} /\ WellFormedKeyed) =>
        LET other == DetectCompareResources(tf_state, sf_resources, resource,
                                            attributes, synonyms)
        IN /\ (pc = "done") <=> (other.kind = "return")
           /\ pc = "done" => Range(drifts) = other.records

\* a finished call on well-formed keyed arguments for the user type, with
\* records on both sides, that reports an attribute drift
C29_Witness ==
    /\ pc = "done"
    /\ WellFormedKeyed
    /\ KeyField(resource) = K_login_name
    /\ tf_resources # <<>>
    /\ sf_resources.l # <<>>
    /\ \E j \in 1..Len(drifts) : IsAttribute(drifts[j])

\* the key values of the records of a sequence that have the key field
KeysOf(recs) ==
    {Item(recs[i], KeyField(resource)) :
         i \in {j \in 1..Len(recs) :
                    IsDict(recs[j]) /\ HasKey(recs[j], KeyField(resource))}}

\* two string keys that differ, and in the case of their letters only
OnlyCaseDiffers(k1, k2) ==
    /\ IsStr(k1) /\ IsStr(k2)
    /\ k1 # k2
    /\ Lower(k1.s) = Lower(k2.s)

NoAttributeDriftOf(key) ==
    \A i \in 1..Len(drifts) : IsAttribute(drifts[i]) => drifts[i].name # key

====
